---- MODULE Spec2Model ----
(***************************************************************************)
(* Model of wpilog-polars: conversion of a WPILOG record stream into a     *)
(* DataFrame (src/src/converter.rs, schema.rs, builders.rs, datalog.rs,    *)
(* types.rs, struct_support/registry.rs).                                  *)
(*                                                                         *)
(* The input is a byte range.  It is represented by its header fields and  *)
(* by the records the frame decoder yields from the bytes after the        *)
(* header; a record is (entry, timestamp, payload).  Control payloads are  *)
(* kept decoded (first byte, byte length, fields), data payloads are byte  *)
(* sequences, and strings that the code inspects by prefix or suffix are   *)
(* sequences of tokens.                                                    *)
(***************************************************************************)
EXTENDS Integers, Sequences, FiniteSets, TLC

VARIABLES
    input,              \* the byte range handed to parse / infer_schema
    api,                \* "parse" (WpilogConverter::from_bytes) or "infer" (infer_schema)
    pc,                 \* position of the call
    pos,                \* index of the next record of the running pass
    schema,             \* WpilogSchema: columns, entry_to_index
    schema_entries,     \* Pass 1: entry id -> struct name
    schema_defs,        \* Pass 1: struct name -> schema text
    finished_entries,   \* finished_entries of the running pass
    registry,           \* StructRegistry.schemas
    current_timestamp,  \* Pass 2: Option<i64>
    current_values,     \* Pass 2: Vec<Option<PolarsValue>>
    builder,            \* DataFrameBuilder: timestamp, columns[i].values
    result              \* what the call returned

vars == << input, api, pc, pos, schema, schema_entries, schema_defs,
           finished_entries, registry, current_timestamp, current_values,
           builder, result >>

----------------------------------------------------------------------------
(* Bounds of the explored inputs *)

MaxRecs == 4
MaxStructRecs == 3
MaxTypedRecs == 3
MaxFields == 3
MaxListRecs == 3
MaxControlRecs == 3

(* Program constants *)

CONTROL_START == 0
CONTROL_FINISH == 1
CONTROL_SET_METADATA == 2
HeaderLen == 12
MinVersion == 256
StartMinLen == 17
FinishLen == 5
MinFrame == 4
WordBits == 64

----------------------------------------------------------------------------
(* Small helpers on maps (HashMap) and sequences *)

EmptyMap == << >>

MapPut(m, k, v) == [x \in (DOMAIN m) \cup {k} |-> IF x = k THEN v ELSE m[x]]

Range(s) == {s[i] : i \in DOMAIN s}

RECURSIVE SumSeq(_)
SumSeq(s) == IF s = << >> THEN 0 ELSE Head(s) + SumSeq(Tail(s))

RECURSIVE SeqsUpTo(_, _)
SeqsUpTo(S, n) ==
    IF n = 0 THEN {<< >>}
    ELSE LET shorter == SeqsUpTo(S, n - 1)
         IN  shorter \cup {Append(s, x) : s \in {t \in shorter : Len(t) = n - 1}, x \in S}

Perms(S) == {f \in [1..Cardinality(S) -> S] : \A x \in S : \E i \in DOMAIN f : f[i] = x}

None == [some |-> FALSE, tag |-> "None", v |-> << >>]
Some(tag, v) == [some |-> TRUE, tag |-> tag, v |-> v]

NoTs == [some |-> FALSE, v |-> 0]
SomeTs(t) == [some |-> TRUE, v |-> t]

----------------------------------------------------------------------------
(* Records as the frame decoder yields them (datalog.rs DataLogRecord).    *)
(* ctl is the first payload byte of a control record, len the payload      *)
(* length in bytes.                                                        *)

\* the payload of a control record is kept decoded in ctl, len, start, fin
NoData == [bytes |-> << >>, text |-> << >>]

NoStart == [entry |-> 0, name |-> << >>, type_name |-> << >>, ok |-> FALSE]

StartRec(e, name, ty, n) ==
    [hdr |-> MinFrame, entry |-> 0, timestamp |-> 0, ctl |-> CONTROL_START, len |-> n,
     start |-> [entry |-> e, name |-> name, type_name |-> ty, ok |-> TRUE],
     fin |-> 0, data |-> NoData]

FinishRec(e) ==
    [hdr |-> MinFrame, entry |-> 0, timestamp |-> 0, ctl |-> CONTROL_FINISH, len |-> FinishLen,
     start |-> NoStart, fin |-> e, data |-> NoData]

SetMetadataRec(e) ==
    [hdr |-> MinFrame, entry |-> 0, timestamp |-> 0, ctl |-> CONTROL_SET_METADATA, len |-> 9,
     start |-> NoStart, fin |-> e, data |-> NoData]

\* a Start payload of at least 17 bytes whose inner strings run past its end
TruncatedStartRec ==
    [hdr |-> MinFrame, entry |-> 0, timestamp |-> 0, ctl |-> CONTROL_START, len |-> StartMinLen,
     start |-> NoStart, fin |-> 0, data |-> NoData]

DataRec(e, ts, payload) ==
    [hdr |-> MinFrame, entry |-> e, timestamp |-> ts, ctl |-> 0, len |-> Len(payload.bytes),
     start |-> NoStart, fin |-> 0, data |-> payload]

\* a record whose timestamp field takes 4 bytes: a frame header of 7 bytes
Wide(r) == [r EXCEPT !.hdr = MinFrame + 3]

\* bytes of a record in the file: hdr bytes of descriptor, entry, size and
\* timestamp fields (1 byte each unless said otherwise), then the payload
RecBytes(r) == r.hdr + r.len

----------------------------------------------------------------------------
(* datalog.rs: header validation and record classification *)

get_version(in) == IF in.len < HeaderLen THEN 0 ELSE in.version

is_valid(in) == in.len >= HeaderLen /\ in.magic_ok /\ get_version(in) >= MinVersion

\* next without the check of the payload against the end of the buffer
iterator_next_unchecked_payload(in, p, i) ==
    IF in.len < p + MinFrame
    THEN [some |-> FALSE, pos |-> p, read |-> 0]
    ELSE IF in.len < p + in.recs[i].hdr
    THEN [some |-> FALSE, pos |-> p, read |-> p + 1]
    ELSE [some |-> TRUE, pos |-> p + in.recs[i].hdr + in.recs[i].len,
          read |-> p + in.recs[i].hdr + in.recs[i].len]

\* DataLogIterator::next at offset p, where the frame in.recs[i] begins.
\* read is the end of the bytes the call has looked at.
iterator_next(in, p, i) ==
    IF in.len < p + MinFrame
    THEN [some |-> FALSE, pos |-> p, read |-> 0]
    ELSE LET header_len == in.recs[i].hdr
             size == in.recs[i].len
         IN  IF in.len < p + header_len
             THEN [some |-> FALSE, pos |-> p, read |-> p + 1]
             ELSE IF in.len < p + header_len + size
             THEN [some |-> FALSE, pos |-> p, read |-> p + header_len]
             ELSE [some |-> TRUE, pos |-> p + header_len + size,
                   read |-> p + header_len + size]

Max(a, b) == IF a >= b THEN a ELSE b

\* the iteration from offset p: the records yielded and the end of the bytes
\* looked at
RECURSIVE iterate(_, _, _, _)
iterate(in, p, i, acc) ==
    LET step == iterator_next(in, p, i)
        seen == [acc EXCEPT !.read = Max(@, step.read)]
    IN  IF step.some
        THEN iterate(in, step.pos, i + 1, [seen EXCEPT !.recs = Append(@, in.recs[i])])
        ELSE seen

\* DataLogReader::records: the iterator starts at 12 + extra_header_size
start_pos(in) == HeaderLen + in.extra

records(in) == iterate(in, start_pos(in), 1, [recs |-> << >>, read |-> 0]).recs

bytes_read(in) == iterate(in, start_pos(in), 1, [recs |-> << >>, read |-> 0]).read

is_control(r) == r.entry = 0

is_start(r) == r.entry = 0 /\ r.len >= StartMinLen /\ r.ctl = CONTROL_START

\* a Finish told by its first byte alone
is_finish_any_length(r) == r.entry = 0 /\ r.len >= 1 /\ r.ctl = CONTROL_FINISH

is_finish(r) == r.entry = 0 /\ r.len = FinishLen /\ r.ctl = CONTROL_FINISH

\* get_start_data: Err(ParseError) when an inner string runs past the payload
get_start_data(r) ==
    IF is_start(r) /\ r.start.ok THEN [ok |-> TRUE, v |-> r.start]
    ELSE [ok |-> FALSE, err |-> "ParseError"]

get_finish_entry(r) == r.fin

----------------------------------------------------------------------------
(* types.rs: PolarsDataType::from_wpilog_type.  A type string is a         *)
(* sequence of tokens: <<"double">>, <<"struct:", "P">>,                   *)
(* <<"struct:", "P", "[]">>.                                               *)

Scalar(k) == [kind |-> k, sname |-> ""]

starts_with_struct(ty) == Len(ty) >= 1 /\ ty[1] = "struct:"

ends_with_brackets(ty) == Len(ty) >= 1 /\ ty[Len(ty)] = "[]"

from_wpilog_type(ty) ==
    CASE ty = <<"double">>    -> Scalar("Float64")
      [] ty = <<"float">>     -> Scalar("Float32")
      [] ty = <<"int64">>     -> Scalar("Int64")
      [] ty = <<"boolean">>   -> Scalar("Boolean")
      [] ty = <<"string">>    -> Scalar("String")
      [] ty = <<"raw">>       -> Scalar("String")
      [] ty = <<"boolean[]">> -> Scalar("BooleanArray")
      [] ty = <<"int64[]">>   -> Scalar("Int64Array")
      [] ty = <<"float[]">>   -> Scalar("Float32Array")
      [] ty = <<"double[]">>  -> Scalar("Float64Array")
      [] ty = <<"string[]">>  -> Scalar("StringArray")
      [] starts_with_struct(ty) /\ ends_with_brackets(ty)
                              -> [kind |-> "StructArray",
                                  sname |-> IF Len(ty) >= 3 THEN ty[2] ELSE ""]
      [] starts_with_struct(ty)
                              -> [kind |-> "Struct",
                                  sname |-> IF Len(ty) >= 2 THEN ty[2] ELSE ""]
      [] OTHER                -> Scalar("String")

is_structschema(ty) == ty = <<"structschema">>

\* converter.rs 56-61: "/.schema/struct:Name" -> "Name", any other name whole
simple_name(name) ==
    IF Len(name) = 2 /\ name[1] = "/.schema/struct:" THEN name[2] ELSE name[1]

----------------------------------------------------------------------------
(* schema.rs: WpilogSchema *)

EmptySchema == [columns |-> << >>, entry_to_index |-> EmptyMap]

ColumnInfo(sd) ==
    [entry_id |-> sd.entry, name |-> sd.name, dtype |-> from_wpilog_type(sd.type_name)]

\* add_column with the new column put in front of the others
add_column_in_front(sch, column) ==
    [columns |-> <<column>> \o sch.columns,
     entry_to_index |-> MapPut([e \in DOMAIN sch.entry_to_index |-> sch.entry_to_index[e] + 1],
                               column.entry_id, 1)]

\* the index is 0-based in the code and 1-based here
add_column(sch, column) ==
    [columns |-> Append(sch.columns, column),
     entry_to_index |-> MapPut(sch.entry_to_index, column.entry_id, Len(sch.columns) + 1)]

has_column(sch, e) == e \in DOMAIN sch.entry_to_index

get_column_by_entry(sch, e) == sch.columns[sch.entry_to_index[e]]

\* converter.rs 186-190: position of the first column with this entry id
column_index(sch, e) ==
    CHOOSE i \in 1..Len(sch.columns) :
        /\ sch.columns[i].entry_id = e
        /\ \A j \in 1..(i - 1) : sch.columns[j].entry_id # e

num_columns(sch) == Len(sch.columns)

----------------------------------------------------------------------------
(* struct_support/parser.rs, registry.rs.  A schema text is the sequence   *)
(* of its ';'-separated declarations, each already split into its tokens:  *)
(* kind "std" (TYPE NAME or TYPE NAME[arr]), "bits" (TYPE NAME : bits) or  *)
(* "bad" (fewer than two tokens).                                          *)

\* offset, size, bit_offset and spans_units are set by the registry; for a
\* bit-field offset is its storage_offset
StdDecl(ty, name) ==
    [kind |-> "std", type |-> ty, name |-> name, bits |-> 0, arr |-> 0,
     is_array |-> FALSE, offset |-> 0, size |-> 0, bit_offset |-> 0, spans_units |-> FALSE]
ArrDecl(ty, name, n) == [StdDecl(ty, name) EXCEPT !.arr = n, !.is_array = TRUE]
BitDecl(ty, name, n) == [StdDecl(ty, name) EXCEPT !.kind = "bits", !.bits = n]
BadDecl == [StdDecl("", "") EXCEPT !.kind = "bad"]

IntegerTypes == {"bool", "int8", "int16", "int32", "int64",
                 "uint8", "uint16", "uint32", "uint64"}

PrimitiveTypes == IntegerTypes \cup {"char", "float", "float32", "double", "float64"}

\* the width of the storage unit as the maximum, for bool too
max_bits_of_storage(t) ==
    CASE t \in {"bool", "int8", "uint8"} -> 8
      [] t \in {"int16", "uint16"} -> 16
      [] t \in {"int32", "uint32"} -> 32
      [] OTHER -> 64

\* types.rs IntegerType::max_bits
max_bits(t) ==
    CASE t = "bool" -> 1
      [] t \in {"int8", "uint8"} -> 8
      [] t \in {"int16", "uint16"} -> 16
      [] t \in {"int32", "uint32"} -> 32
      [] OTHER -> 64

\* registry.rs integer_type_width
integer_type_width(t) ==
    CASE t \in {"bool", "int8", "uint8"} -> 8
      [] t \in {"int16", "uint16"} -> 16
      [] t \in {"int32", "uint32"} -> 32
      [] OTHER -> 64

integer_type_size(t) == integer_type_width(t) \div 8

\* parser.rs parse_declaration: does one declaration parse
parse_declaration_ok(d) ==
    CASE d.kind = "bad"  -> FALSE
      [] d.kind = "bits" -> /\ d.bits >= 1
                            /\ d.type \in IntegerTypes
                            /\ d.bits <= max_bits(d.type)
      [] OTHER           -> TRUE

\* SchemaParser::parse: Ok(fields) or Err(ParseError)
parse(text) ==
    IF \A i \in DOMAIN text : parse_declaration_ok(text[i])
    THEN [ok |-> TRUE, fields |-> text]
    ELSE [ok |-> FALSE, err |-> "ParseError"]

\* registry.rs calculate_field_size of an element type
elem_size(reg, ty) ==
    CASE ty \in {"bool", "int8", "uint8", "char"} -> 1
      [] ty \in {"int16", "uint16"} -> 2
      [] ty \in {"int32", "uint32", "float", "float32"} -> 4
      [] ty \in {"int64", "uint64", "double", "float64"} -> 8
      [] OTHER -> reg[ty].total_size

field_resolves(reg, d) == d.type \in PrimitiveTypes \/ d.type \in DOMAIN reg

calculate_field_size(reg, d) ==
    IF d.is_array THEN elem_size(reg, d.type) * d.arr ELSE elem_size(reg, d.type)

\* pack_bitfields 132-139: last bit-field of the group that starts at i, the
\* consecutive bit-fields of the underlying type t
RECURSIVE RunEnd(_, _, _)
RunEnd(fields, i, t) ==
    IF i < Len(fields) /\ fields[i + 1].kind = "bits" /\ fields[i + 1].type = t
    THEN RunEnd(fields, i + 1, t) ELSE i

\* every bit-field in a storage unit of its own
run_bytes_unit_per_field(fields, i, j) == (j - i + 1) * integer_type_size(fields[i].type)

\* the storage units the group fills, the last one left out when it is
\* filled in part
run_bytes_of_full_units(fields, i, j) ==
    LET t == fields[i].type
        total_bits == SumSeq([k \in 1..(j - i + 1) |-> fields[i + k - 1].bits])
    IN  (total_bits \div integer_type_width(t)) * integer_type_size(t)

\* pack_bitfields 145-149: bytes of one group, ceil(total_bits / width) storage units
run_bytes(fields, i, j) ==
    LET t == fields[i].type
        total_bits == SumSeq([k \in 1..(j - i + 1) |-> fields[i + k - 1].bits])
        num_units == (total_bits + integer_type_width(t) - 1) \div integer_type_width(t)
    IN  num_units * integer_type_size(t)

\* bit_offset counted from the start of the group, not of the storage unit
pack_group_offset_in_group(bitfields, i, j, offset) ==
    LET type_width == integer_type_width(bitfields[i].type)
        type_size == integer_type_size(bitfields[i].type)
    IN  [k \in 1..(j - i + 1) |->
            LET bitfield == bitfields[i + k - 1]
                bit_offset == SumSeq([m \in 1..(k - 1) |-> bitfields[i + m - 1].bits])
                start_unit == bit_offset \div type_width
                end_unit == (bit_offset + bitfield.bits - 1) \div type_width
            IN  [bitfield EXCEPT !.offset = offset + start_unit * type_size,
                                 !.size = type_size,
                                 !.bit_offset = bit_offset,
                                 !.spans_units = end_unit > start_unit]]

\* pack_bitfields 151-173: the bit-fields i..j of one group placed from offset on
pack_group(bitfields, i, j, offset) ==
    LET type_width == integer_type_width(bitfields[i].type)
        type_size == integer_type_size(bitfields[i].type)
    IN  [k \in 1..(j - i + 1) |->
            LET bitfield == bitfields[i + k - 1]
                bit_offset == SumSeq([m \in 1..(k - 1) |-> bitfields[i + m - 1].bits])
                start_unit == bit_offset \div type_width
                end_unit == (bit_offset + bitfield.bits - 1) \div type_width
            IN  [bitfield EXCEPT !.offset = offset + start_unit * type_size,
                                 !.size = type_size,
                                 !.bit_offset = bit_offset % type_width,
                                 !.spans_units = end_unit > start_unit]]

\* pack_bitfields 130-176: the groups from bit-field i on
RECURSIVE pack_from(_, _, _, _)
pack_from(bitfields, i, offset, acc) ==
    IF i > Len(bitfields) THEN [fields |-> acc, next_offset |-> offset]
    ELSE LET j == RunEnd(bitfields, i, bitfields[i].type)
         IN  pack_from(bitfields, j + 1, offset + run_bytes(bitfields, i, j),
                       acc \o pack_group(bitfields, i, j, offset))

pack_bitfields(bitfields, start_offset) == pack_from(bitfields, 1, start_offset, << >>)

\* calculate_layout 44-78: the fields from i on; pending are the bit-fields
\* met since the last standard field
RECURSIVE layout_from(_, _, _, _, _, _)
layout_from(reg, fields, i, offset, pending, acc) ==
    LET packed == pack_bitfields(pending, offset)
    IN  IF i > Len(fields)
        THEN [fields |-> acc \o packed.fields, total_size |-> packed.next_offset]
        ELSE IF fields[i].kind = "bits"
        THEN layout_from(reg, fields, i + 1, offset, Append(pending, fields[i]), acc)
        ELSE LET size == calculate_field_size(reg, fields[i])
                 placed == [fields[i] EXCEPT !.offset = packed.next_offset, !.size = size]
             IN  layout_from(reg, fields, i + 1, packed.next_offset + size, << >>,
                             Append(acc \o packed.fields, placed))

calculate_layout(reg, fields) ==
    IF \A i \in DOMAIN fields : fields[i].kind = "bits" \/ field_resolves(reg, fields[i])
    THEN LET layout == layout_from(reg, fields, 1, 0, << >>, << >>)
         IN  [ok |-> TRUE, fields |-> layout.fields, total_size |-> layout.total_size]
    ELSE [ok |-> FALSE, err |-> "SchemaError"]

\* StructRegistry::register: Ok leaves the schema inserted, Err leaves reg as it was
register_ok(reg, text) == parse(text).ok /\ calculate_layout(reg, parse(text).fields).ok

\* the schema inserted before its layout is known to exist
register_inserting_before_layout(reg, name, text) ==
    IF ~parse(text).ok THEN reg
    ELSE LET layout == calculate_layout(reg, parse(text).fields)
         IN  MapPut(reg, name, [name |-> name,
                                fields |-> IF layout.ok THEN layout.fields
                                           ELSE parse(text).fields,
                                total_size |-> IF layout.ok THEN layout.total_size ELSE 0])

register(reg, name, text) ==
    IF register_ok(reg, text)
    THEN LET layout == calculate_layout(reg, parse(text).fields)
         IN  MapPut(reg, name, [name |-> name, fields |-> layout.fields,
                                total_size |-> layout.total_size])
    ELSE reg

----------------------------------------------------------------------------
(* converter.rs 96-118: registration with dependency resolution.  order is *)
(* the iteration order of the HashMap schema_defs, one permutation of its  *)
(* keys, the same in every pass of the loop.                               *)

\* lines 103-112: one pass over schema_defs, from position i of order
RECURSIVE register_pass(_, _, _, _)
register_pass(st, defs, order, i) ==
    IF i > Len(order) THEN st
    ELSE LET struct_name == order[i]
             after == register(st.registry, struct_name, defs[struct_name])
             next == IF struct_name \in st.registered THEN st
                     ELSE IF register_ok(st.registry, defs[struct_name])
                          THEN [registry |-> after,
                                registered |-> st.registered \cup {struct_name},
                                passes |-> st.passes]
                          ELSE [st EXCEPT !.registry = after]
         IN  register_pass(next, defs, order, i + 1)

\* the loop without its repetition: one pass over schema_defs
register_loop_single_pass(st, defs, order) ==
    IF Cardinality(st.registered) < Cardinality(DOMAIN defs)
    THEN register_pass([st EXCEPT !.passes = @ + 1], defs, order, 1)
    ELSE st

\* the loop given up after two passes
register_loop_two_passes(st, defs, order) ==
    LET first == register_loop_single_pass(st, defs, order)
    IN  IF Cardinality(first.registered) = Cardinality(st.registered) THEN first
        ELSE register_loop_single_pass(first, defs, order)

\* lines 119-130: the definitions reported by a warning
warned(st, defs) ==
    IF Cardinality(st.registered) < Cardinality(DOMAIN defs)
    THEN {struct_name \in DOMAIN defs : struct_name \notin st.registered}
    ELSE {}

\* lines 100-118: repeat while a pass registers something
RECURSIVE register_loop(_, _, _)
register_loop(st, defs, order) ==
    IF Cardinality(st.registered) < Cardinality(DOMAIN defs)
    THEN LET after == register_pass([st EXCEPT !.passes = @ + 1], defs, order, 1)
         IN  IF Cardinality(after.registered) = Cardinality(st.registered)
             THEN after
             ELSE register_loop(after, defs, order)
    ELSE st

register_all(defs, order) ==
    register_loop([registry |-> EmptyMap, registered |-> {}, passes |-> 0], defs, order)

----------------------------------------------------------------------------
(* datalog.rs 115-257: payload decoders.  A payload is its bytes together  *)
(* with the declarations its text splits into (BadDecl when the bytes are  *)
(* no schema text).  A decoded value keeps the bytes it was read from:     *)
(* an f64, f32 or i64 is identified with its little-endian bytes.          *)

Payload(bytes, text) == [bytes |-> bytes, text |-> text]

Err(kind) == [ok |-> FALSE, err |-> kind, v |-> None]
Ok(value) == [ok |-> TRUE, err |-> "", v |-> value]

NonZero(b) == IF b # 0 THEN 1 ELSE 0

\* get_string: UTF-8, lossy for invalid sequences (bytes below 128 are kept)
get_string(data) == [i \in 1..Len(data.bytes) |-> IF data.bytes[i] < 128 THEN data.bytes[i] ELSE 65533]

get_schema_text(data) == data.text

fixed_width(tag, width, data) ==
    IF Len(data.bytes) # width THEN Err("ParseError") ELSE Ok(Some(tag, data.bytes))

\* a list decoder without the check of the payload length
array_of_unchecked(tag, width, data) == Ok(Some(tag, data.bytes))

array_of(tag, width, data) ==
    IF Len(data.bytes) % width # 0 THEN Err("ParseError") ELSE Ok(Some(tag, data.bytes))

get_boolean(data) ==
    IF Len(data.bytes) # 1 THEN Err("ParseError")
    ELSE Ok(Some("Boolean", <<NonZero(data.bytes[1])>>))

get_boolean_array(data) ==
    Ok(Some("BooleanArray", [i \in 1..Len(data.bytes) |-> NonZero(data.bytes[i])]))

\* a u64 is the sequence of its WordBits bits, the least significant first
bit_of(byte, k) == (byte \div (2 ^ k)) % 2
ones(n) == [k \in 1..WordBits |-> IF k <= n THEN 1 ELSE 0]
shl(word, n) == [k \in 1..WordBits |-> IF k > n THEN word[k - n] ELSE 0]
shr(word, n) == [k \in 1..WordBits |-> IF k + n <= WordBits THEN word[k + n] ELSE 0]
bit_and(a, b) == [k \in 1..WordBits |-> a[k] * b[k]]
bit_or(a, b) == [k \in 1..WordBits |-> IF a[k] + b[k] > 0 THEN 1 ELSE 0]

\* 1u64 << n overflows when n is the width of u64: a panic in a build with
\* overflow checks, a shift by n modulo the width in a build without
shift_overflows(n) == n >= WordBits
\* (1u64 << n) - 1
low_mask(n) == ones(n % WordBits)

\* deserializer.rs 268-280 IntegerType::width
width(int_type) ==
    CASE int_type \in {"bool", "int8", "uint8"} -> 8
      [] int_type \in {"int16", "uint16"} -> 16
      [] int_type \in {"int32", "uint32"} -> 32
      [] OTHER -> 64

\* deserializer.rs 249-265 read_integer_at: little-endian, a signed type
\* sign-extended to 64 bits
read_integer_at(data, offset, int_type) ==
    LET raw(k) == bit_of(data[offset + 1 + (k \div 8)], k % 8)
        signed == int_type \in {"int8", "int16", "int32", "int64"}
    IN  [k \in 1..WordBits |->
            IF k <= width(int_type) THEN raw(k - 1)
            ELSE IF signed THEN raw(width(int_type) - 1) ELSE 0]

\* deserializer.rs 206-246 deserialize_bitfield; reading behind the end of
\* data panics
deserialize_bitfield(bitfield, data, overflow_checks) ==
    LET type_width == width(bitfield.type)
        type_size == integer_type_size(bitfield.type)
        units == IF bitfield.spans_units THEN 2 ELSE 1
        unit1 == read_integer_at(data, bitfield.offset, bitfield.type)
        unit2 == read_integer_at(data, bitfield.offset + type_size, bitfield.type)
        bits_in_first == type_width - bitfield.bit_offset
        mask1 == shl(low_mask(bits_in_first), bitfield.bit_offset)
        val1 == shr(bit_and(unit1, mask1), bitfield.bit_offset)
        bits_in_second == bitfield.bits - bits_in_first
        val2 == bit_and(unit2, low_mask(bits_in_second))
        mask == low_mask(bitfield.bits)
        storage_val == IF bitfield.spans_units
                       THEN bit_or(val1, shl(val2, bits_in_first))
                       ELSE bit_and(shr(unit1, bitfield.bit_offset), mask)
        overflow == IF bitfield.spans_units
                    THEN shift_overflows(bits_in_first) \/ shift_overflows(bits_in_second)
                    ELSE shift_overflows(bitfield.bits)
    IN  IF bitfield.offset + units * type_size > Len(data) THEN Err("panic")
        ELSE IF overflow /\ overflow_checks THEN Err("panic")
        ELSE Ok([kind |-> "Int64", word |-> storage_val])

\* deserializer.rs 53-86: StructDeserializer::deserialize, the fields a map
\* from field name to value
RECURSIVE deserialize(_, _, _, _)

\* deserializer.rs 164-186 deserialize_array_element, data from the element on
deserialize_array_element(reg, elem_type, size, data, overflow_checks) ==
    IF elem_type \notin PrimitiveTypes
    THEN LET nested == deserialize(reg, elem_type, data, overflow_checks)
         IN  IF nested.ok THEN Ok([kind |-> "Struct", fields |-> nested.v.v]) ELSE nested
    ELSE IF size > Len(data) THEN Err("panic")
    ELSE IF elem_type = "bool" THEN Ok([kind |-> "bool", bytes |-> <<NonZero(data[1])>>])
    ELSE Ok([kind |-> elem_type, bytes |-> SubSeq(data, 1, size)])

\* deserializer.rs 89-161 deserialize_standard_field
deserialize_standard_field(reg, field, data, overflow_checks) ==
    IF field.is_array
    THEN IF field.type \notin PrimitiveTypes /\ field.type \notin DOMAIN reg
         THEN Err("SchemaError")
         ELSE LET size == elem_size(reg, field.type)
                  values == [i \in 1..field.arr |->
                                IF field.offset + (i - 1) * size > Len(data) THEN Err("panic")
                                ELSE deserialize_array_element(
                                         reg, field.type, size,
                                         SubSeq(data, field.offset + (i - 1) * size + 1, Len(data)),
                                         overflow_checks)]
                  failed == {i \in 1..field.arr : ~values[i].ok}
              IN  IF failed # {} THEN values[CHOOSE i \in failed : \A j \in failed : i <= j]
                  ELSE Ok([kind |-> "Array", elems |-> [i \in 1..field.arr |-> values[i].v]])
    ELSE IF field.type \in PrimitiveTypes
    THEN IF field.offset + elem_size(reg, field.type) > Len(data) THEN Err("panic")
         ELSE deserialize_array_element(
                  reg, field.type, elem_size(reg, field.type),
                  SubSeq(data, field.offset + 1, Len(data)), overflow_checks)
    ELSE IF field.type \notin DOMAIN reg THEN Err("SchemaError")
    ELSE IF field.offset + reg[field.type].total_size > Len(data) THEN Err("panic")
    ELSE deserialize_array_element(
             reg, field.type, reg[field.type].total_size,
             SubSeq(data, field.offset + 1, field.offset + reg[field.type].total_size),
             overflow_checks)

deserialize(reg, struct_name, bytes, overflow_checks) ==
    IF struct_name \notin DOMAIN reg THEN Err("SchemaError")
    ELSE IF Len(bytes) < reg[struct_name].total_size THEN Err("ParseError")
    ELSE LET fields == reg[struct_name].fields
             values == [i \in DOMAIN fields |->
                           IF fields[i].kind = "bits"
                           THEN deserialize_bitfield(fields[i], bytes, overflow_checks)
                           ELSE deserialize_standard_field(reg, fields[i], bytes,
                                                           overflow_checks)]
             failed == {i \in DOMAIN fields : ~values[i].ok}
             last(n) == CHOOSE i \in DOMAIN fields :
                            /\ fields[i].name = n
                            /\ \A j \in DOMAIN fields : fields[j].name = n => j <= i
         IN  IF failed # {} THEN values[CHOOSE i \in failed : \A j \in failed : i <= j]
             ELSE Ok(Some("Struct", [n \in {fields[i].name : i \in DOMAIN fields} |->
                                        values[last(n)].v]))

\* converter.rs 245-276: list of structs; a zero struct size makes % panic
deserialize_array(reg, struct_name, bytes, overflow_checks) ==
    IF struct_name \notin DOMAIN reg THEN Err("SchemaError")
    ELSE LET struct_size == reg[struct_name].total_size
             num_structs == Len(bytes) \div struct_size
             values == [i \in 1..num_structs |->
                           deserialize(reg, struct_name,
                                       SubSeq(bytes, (i - 1) * struct_size + 1, i * struct_size),
                                       overflow_checks)]
             failed == {i \in 1..num_structs : ~values[i].ok}
         IN  IF struct_size = 0 THEN Err("panic")
             ELSE IF Len(bytes) % struct_size # 0 THEN Err("ParseError")
             ELSE IF failed # {} THEN values[CHOOSE i \in failed : \A j \in failed : i <= j]
             ELSE Ok(Some("StructArray", [i \in 1..num_structs |-> values[i].v.v]))

\* read_u32 of the 4 bytes behind offset at, little-endian; a value of 256
\* or more, larger than any payload here, is kept as 256 plus its low byte
u32_at(bytes, at) ==
    IF bytes[at + 2] = 0 /\ bytes[at + 3] = 0 /\ bytes[at + 4] = 0
    THEN bytes[at + 1]
    ELSE 256 + bytes[at + 1]

\* read_inner_string: the string behind offset at and the offset of its end
read_inner_string(bytes, at) ==
    IF at + 4 > Len(bytes) THEN [ok |-> FALSE, err |-> "ParseError"]
    ELSE LET end == at + 4 + u32_at(bytes, at)
         IN  IF end > Len(bytes) THEN [ok |-> FALSE, err |-> "ParseError"]
             ELSE [ok |-> TRUE, s |-> SubSeq(bytes, at + 5, end), at |-> end]

\* get_string_array 247-254: size strings from offset at on
RECURSIVE read_strings(_, _, _, _)
read_strings(bytes, at, size, acc) ==
    IF size = 0 THEN Ok(Some("StringArray", acc))
    ELSE LET one == read_inner_string(bytes, at)
         IN  IF one.ok THEN read_strings(bytes, one.at, size - 1, Append(acc, one.s))
             ELSE Err(one.err)

\* get_string_array: read_u32 fails with an io::Error on fewer than 4 bytes
get_string_array(data) ==
    IF Len(data.bytes) < 4 THEN Err("Io")
    ELSE IF u32_at(data.bytes, 0) > (Len(data.bytes) - 4) \div 4 THEN Err("ParseError")
    ELSE read_strings(data.bytes, 4, u32_at(data.bytes, 0), << >>)

\* converter.rs 218-278
parse_record_value(r, dtype, reg, overflow_checks) ==
    CASE dtype.kind = "Float64"      -> fixed_width("Float64", 8, r.data)
      [] dtype.kind = "Float32"      -> fixed_width("Float32", 4, r.data)
      [] dtype.kind = "Int64"        -> fixed_width("Int64", 8, r.data)
      [] dtype.kind = "Boolean"      -> get_boolean(r.data)
      [] dtype.kind = "String"       -> Ok(Some("String", get_string(r.data)))
      [] dtype.kind = "BooleanArray" -> get_boolean_array(r.data)
      [] dtype.kind = "Int64Array"   -> array_of("Int64Array", 8, r.data)
      [] dtype.kind = "Float32Array" -> array_of("Float32Array", 4, r.data)
      [] dtype.kind = "Float64Array" -> array_of("Float64Array", 8, r.data)
      [] dtype.kind = "StringArray"  -> get_string_array(r.data)
      [] dtype.kind = "Struct"       -> deserialize(reg, dtype.sname, r.data.bytes, overflow_checks)
      [] OTHER                       -> deserialize_array(reg, dtype.sname, r.data.bytes,
                                                          overflow_checks)

----------------------------------------------------------------------------
(* builders.rs: ColumnBuilder, DataFrameBuilder *)

NewBuilder(n) == [timestamp |-> << >>, columns |-> [i \in 1..n |-> << >>]]

\* push_row: a value per builder, null where the slice is shorter
push_row_values_only(b, ts, values) ==
    [timestamp |-> Append(b.timestamp, ts),
     columns |-> [i \in 1..Len(b.columns) |->
                    IF i <= Len(values) THEN Append(b.columns[i], values[i])
                    ELSE b.columns[i]]]

push_row(b, ts, values) ==
    [timestamp |-> Append(b.timestamp, ts),
     columns |-> [i \in 1..Len(b.columns) |->
                    Append(b.columns[i], IF i <= Len(values) THEN values[i] ELSE None)]]

\* ColumnBuilder::build: a value of another variant than the column's becomes null
typed_cell(dtype, value) ==
    IF value.some /\ value.tag = dtype.kind THEN value ELSE None

\* struct columns, builders.rs 169-249: an absent struct is a struct of
\* null fields, an absent or empty list of structs an empty series
struct_cell(dtype, value) ==
    IF dtype.kind = "Struct"
    THEN IF value.some /\ value.tag = "Struct" THEN value ELSE Some("NullFields", << >>)
    ELSE IF value.some /\ value.tag = "StructArray" THEN value ELSE Some("StructArray", << >>)

is_struct_kind(dtype) == dtype.kind \in {"Struct", "StructArray"}

column_build_ok(dtype, reg) == is_struct_kind(dtype) => dtype.sname \in DOMAIN reg

column_build(dtype, values) ==
    [i \in 1..Len(values) |->
        IF is_struct_kind(dtype) THEN struct_cell(dtype, values[i])
        ELSE typed_cell(dtype, values[i])]

TimestampName == <<"timestamp">>

NoDuplicates(names) == \A i, j \in DOMAIN names : names[i] = names[j] => i = j

\* DataFrameBuilder::build; DataFrame::new rejects duplicate column names
build(b, sch, reg) ==
    LET names == <<TimestampName>> \o [i \in 1..Len(sch.columns) |-> sch.columns[i].name]
    IN  IF \E i \in 1..Len(sch.columns) : ~column_build_ok(sch.columns[i].dtype, reg)
        THEN [kind |-> "Err", err |-> "SchemaError"]
        ELSE IF ~NoDuplicates(names)
        THEN [kind |-> "Err", err |-> "PolarsError"]
        ELSE [kind |-> "DataFrame",
              names |-> names,
              dtypes |-> <<Scalar("Int64")>> \o
                         [i \in 1..Len(sch.columns) |-> sch.columns[i].dtype],
              timestamp |-> b.timestamp,
              columns |-> [i \in 1..Len(sch.columns) |->
                             column_build(sch.columns[i].dtype, b.columns[i])]]

\* types.rs to_polars_dtype: struct columns are reported as String
to_polars_dtype(dtype) == IF is_struct_kind(dtype) THEN Scalar("String") ELSE dtype

\* schema.rs to_polars_schema: the fields handed to Schema::from_iter
to_polars_schema(sch) ==
    [kind |-> "Schema",
     names |-> <<TimestampName>> \o [i \in 1..Len(sch.columns) |-> sch.columns[i].name],
     dtypes |-> <<Scalar("Int64")>> \o
                [i \in 1..Len(sch.columns) |-> to_polars_dtype(sch.columns[i].dtype)]]

----------------------------------------------------------------------------
(* The calls.  pc: "call" -> "pass1" -> "pass2" -> "done" for parse,       *)
(* "call" -> "infer" -> "done" for infer_schema.                           *)

NoResult == [kind |-> "None"]
Error(kind) == [kind |-> "Err", err |-> kind]

Locals == << schema, schema_entries, schema_defs, finished_entries, registry,
             current_timestamp, current_values, builder >>

Return(value) ==
    /\ result' = value
    /\ pc' = "done"

\* converter.rs 20-34 WpilogConverter::from_bytes, up to the start of Pass 1
from_bytes ==
    /\ pc = "call" /\ api = "parse"
    /\ IF ~is_valid(input)
       THEN Return(Error("InvalidFormat"))
       ELSE pc' = "pass1" /\ result' = result
    /\ UNCHANGED << input, api, pos, Locals >>

\* the Pass-1 filter left out: every Start of a data column is kept
column_admitted_always(finished, sd) == TRUE

\* no Start of a data column kept
column_admitted_never(finished, sd) == FALSE

\* converter.rs 65: a Start of a data column is kept unless its id was finished
column_admitted(finished, sd) == sd.entry \notin finished

\* the no-columns check left out
no_columns_never(sch) == FALSE

\* converter.rs 90, schema.rs 121: no column was declared
no_columns(sch) == num_columns(sch) = 0

\* converter.rs 46-87: one record of Pass 1
build_registry_and_schema_record ==
    /\ pc = "pass1" /\ pos <= Len(records(input))
    /\ LET record == records(input)[pos]
           sd == get_start_data(record)
       IN  IF is_start(record) /\ ~sd.ok
           THEN /\ Return(Error(sd.err))
                /\ UNCHANGED << pos, schema, schema_entries, schema_defs, finished_entries >>
           ELSE /\ pos' = pos + 1
                /\ UNCHANGED << pc, result >>
                /\ schema_entries' =
                      IF is_start(record) /\ is_structschema(sd.v.type_name)
                      THEN MapPut(schema_entries, sd.v.entry, simple_name(sd.v.name))
                      ELSE schema_entries
                /\ schema' =
                      IF /\ is_start(record) /\ ~is_structschema(sd.v.type_name)
                         /\ column_admitted(finished_entries, sd.v)
                      THEN add_column(schema, ColumnInfo(sd.v))
                      ELSE schema
                /\ finished_entries' =
                      IF ~is_start(record) /\ is_finish(record)
                      THEN finished_entries \cup {get_finish_entry(record)}
                      ELSE finished_entries
                /\ schema_defs' =
                      IF /\ ~is_start(record) /\ ~is_finish(record) /\ ~is_control(record)
                         /\ record.entry \in DOMAIN schema_entries
                      THEN MapPut(schema_defs, schema_entries[record.entry],
                                  get_schema_text(record.data))
                      ELSE schema_defs
    /\ UNCHANGED << input, api, registry, current_timestamp, current_values, builder >>

\* converter.rs 89-154: end of Pass 1, struct registration, set-up of Pass 2
build_registry_and_schema_end ==
    /\ pc = "pass1" /\ pos > Len(records(input))
    /\ IF no_columns(schema)
       THEN /\ Return(Error("SchemaError"))
            /\ UNCHANGED << pos, finished_entries, registry, current_values, builder >>
       ELSE /\ \E order \in Perms(DOMAIN schema_defs) :
                   registry' = register_all(schema_defs, order).registry
            /\ pc' = "pass2"
            /\ pos' = 1
            /\ finished_entries' = {}
            /\ current_values' = [i \in 1..num_columns(schema) |-> None]
            /\ builder' = NewBuilder(num_columns(schema))
            /\ result' = result
    /\ UNCHANGED << input, api, schema, schema_entries, schema_defs, current_timestamp >>

\* a row ended by a greater timestamp only
row_ends_on_increase(ts, record_ts) == ts < record_ts

\* converter.rs 194: the row under construction ends when the timestamp changes
row_ends(ts, record_ts) == ts # record_ts

\* records of finished entries not skipped
skip_finished_never(finished, record) == FALSE

\* converter.rs 174: records of finished entries are skipped
skip_finished(finished, record) == record.entry \in finished

\* a record whose id has no column ends the call: None => return Err(InvalidEntry)
on_missing_column_fatal == "fail"

\* converter.rs 180-183: a record whose id has no column: None => continue
on_missing_column == "continue"

\* the first value written to a column of the row is kept
assign_if_absent(values, idx, value) ==
    IF values[idx].some THEN values ELSE [values EXCEPT ![idx] = value]

\* converter.rs 205: current_values[column_index] = Some(value)
assign_value(values, idx, value) == [values EXCEPT ![idx] = value]

\* converter.rs 161-206: one record of Pass 2
accumulate_data_record ==
    /\ pc = "pass2" /\ pos <= Len(records(input))
    /\ LET record == records(input)[pos]
           skipped == \/ is_control(record)
                      \/ skip_finished(finished_entries, record)
                      \/ ~has_column(schema, record.entry) /\ on_missing_column = "continue"
           column_info == get_column_by_entry(schema, record.entry)
           idx == column_index(schema, record.entry)
           flush == current_timestamp.some /\ row_ends(current_timestamp.v, record.timestamp)
           fresh == IF flush THEN [i \in 1..num_columns(schema) |-> None]
                    ELSE current_values
       IN  /\ finished_entries' =
                 IF is_control(record) /\ is_finish(record)
                 THEN finished_entries \cup {get_finish_entry(record)}
                 ELSE finished_entries
           /\ IF skipped
              THEN /\ pos' = pos + 1
                   /\ UNCHANGED << pc, result, current_timestamp, current_values, builder >>
              ELSE IF ~has_column(schema, record.entry)
              THEN /\ Return(Error("InvalidEntry"))
                   /\ UNCHANGED << pos, current_timestamp, current_values, builder >>
              ELSE /\ builder' = IF flush
                                 THEN push_row(builder, current_timestamp.v, current_values)
                                 ELSE builder
                   /\ current_timestamp' = IF ~current_timestamp.some \/ flush
                                           THEN SomeTs(record.timestamp)
                                           ELSE current_timestamp
                   /\ \E overflow_checks \in BOOLEAN :
                        LET value == parse_record_value(record, column_info.dtype,
                                                        registry, overflow_checks)
                        IN  IF value.ok
                            THEN /\ current_values' = assign_value(fresh, idx, value.v)
                                 /\ pos' = pos + 1
                                 /\ UNCHANGED << pc, result >>
                            ELSE /\ current_values' = fresh
                                 /\ Return(Error(value.err))
                                 /\ pos' = pos
    /\ UNCHANGED << input, api, schema, schema_entries, schema_defs, registry >>

\* a last row whether or not a record was accepted
last_row_pending_always(ts) == TRUE

\* converter.rs 209: if let Some(ts) = current_timestamp
last_row_pending(ts) == ts.some

\* converter.rs 208-214: the last row is flushed and the DataFrame built
accumulate_data_end ==
    /\ pc = "pass2" /\ pos > Len(records(input))
    /\ builder' = IF last_row_pending(current_timestamp)
                  THEN push_row(builder, current_timestamp.v, current_values)
                  ELSE builder
    /\ Return(build(builder', schema, registry))
    /\ UNCHANGED << input, api, pos, schema, schema_entries, schema_defs,
                    finished_entries, registry, current_timestamp, current_values >>

\* lib.rs 163-176 infer_schema, up to the iteration
infer_schema ==
    /\ pc = "call" /\ api = "infer"
    /\ IF ~is_valid(input)
       THEN Return(Error("InvalidFormat"))
       ELSE pc' = "infer" /\ result' = result
    /\ UNCHANGED << input, api, pos, Locals >>

\* schema.rs 88-119: one record of infer_from_records
infer_from_records_record ==
    /\ pc = "infer" /\ pos <= Len(records(input))
    /\ LET record == records(input)[pos]
           sd == get_start_data(record)
       IN  IF is_start(record) /\ ~sd.ok
           THEN /\ Return(Error(sd.err))
                /\ UNCHANGED << pos, schema, finished_entries >>
           ELSE /\ pos' = pos + 1
                /\ UNCHANGED << pc, result >>
                /\ schema' =
                      IF /\ is_start(record)
                         /\ column_admitted(finished_entries, sd.v)
                         /\ ~is_structschema(sd.v.type_name)
                      THEN add_column(schema, ColumnInfo(sd.v))
                      ELSE schema
                /\ finished_entries' =
                      IF ~is_start(record) /\ is_finish(record)
                      THEN finished_entries \cup {get_finish_entry(record)}
                      ELSE finished_entries
    /\ UNCHANGED << input, api, schema_entries, schema_defs, registry,
                    current_timestamp, current_values, builder >>

\* schema.rs 121-127 and lib.rs 175
infer_from_records_end ==
    /\ pc = "infer" /\ pos > Len(records(input))
    /\ IF no_columns(schema)
       THEN Return(Error("SchemaError"))
       ELSE Return(to_polars_schema(schema))
    /\ UNCHANGED << input, api, pos, Locals >>

Next ==
    \/ from_bytes
    \/ build_registry_and_schema_record
    \/ build_registry_and_schema_end
    \/ accumulate_data_record
    \/ accumulate_data_end
    \/ infer_schema
    \/ infer_from_records_record
    \/ infer_from_records_end

----------------------------------------------------------------------------
(* Inputs.  A nominal input has a valid header and holds the bytes of its  *)
(* records; the other inputs have a short, foreign, old or truncated       *)
(* header.                                                                 *)

TotalBytes(recs) == SumSeq([i \in 1..Len(recs) |-> RecBytes(recs[i])])

Nominal(recs) ==
    [len |-> HeaderLen + TotalBytes(recs), magic_ok |-> TRUE, version |-> MinVersion,
     extra |-> 0, recs |-> recs, cut |-> 0]

\* a valid header followed by an extra header of 3 bytes
WithExtraHeader(recs) ==
    [len |-> HeaderLen + 3 + TotalBytes(recs), magic_ok |-> TRUE, version |-> MinVersion,
     extra |-> 3, recs |-> recs, cut |-> 0]

BadMagic(recs) == [Nominal(recs) EXCEPT !.magic_ok = FALSE]

OldVersion(recs) == [Nominal(recs) EXCEPT !.version = MinVersion - 1]

\* fewer than 12 bytes: the empty input, and 11 bytes of a good header
ShortInputs ==
    {[len |-> n, magic_ok |-> (n >= 6), version |-> IF n >= 8 THEN MinVersion ELSE 0,
      extra |-> 0, recs |-> << >>, cut |-> 0] : n \in {0, 11}}

\* the fixed header is whole, the extra header it declares is cut short
TruncatedExtraHeader ==
    {[len |-> HeaderLen + n, magic_ok |-> TRUE, version |-> MinVersion,
      extra |-> 5, recs |-> << >>, cut |-> 0] : n \in {0, 4}}

X8 == Payload(<<1, 0, 0, 0, 0, 0, 0, 0>>, <<BadDecl>>)
Y8 == Payload(<<2, 0, 0, 0, 0, 0, 0, 0>>, <<BadDecl>>)
Z1 == Payload(<<2>>, <<BadDecl>>)

StartA == StartRec(1, <<"a">>, <<"double">>, 24)
StartB == StartRec(1, <<"b">>, <<"boolean">>, 25)
StartC == StartRec(2, <<"c">>, <<"double">>, 24)

\* declarations in front of the free part of the stream
ScalarDecls == {<< >>, <<StartA, StartC>>}

ScalarRecs ==
    {StartA, StartB, FinishRec(1),
     DataRec(2, 1, X8), DataRec(1, 1, X8), DataRec(1, 1, Y8), DataRec(1, 2, X8),
     DataRec(1, 1, Z1)}

Sample == <<StartA, DataRec(1, 1, X8)>>

ScalarInputs ==
    {Nominal(decls \o recs) : decls \in ScalarDecls, recs \in SeqsUpTo(ScalarRecs, MaxRecs)}
    \cup {WithExtraHeader(Sample), BadMagic(Sample), BadMagic(<< >>),
          OldVersion(Sample), OldVersion(<< >>)}
    \cup ShortInputs \cup TruncatedExtraHeader

InitWith(inputs) ==
    /\ input \in inputs
    /\ api \in {"parse", "infer"}
    /\ pc = "call"
    /\ pos = 1
    /\ schema = EmptySchema
    /\ schema_entries = EmptyMap
    /\ schema_defs = EmptyMap
    /\ finished_entries = {}
    /\ registry = EmptyMap
    /\ current_timestamp = NoTs
    /\ current_values = << >>
    /\ builder = NewBuilder(0)
    /\ result = NoResult

Init == InitWith(ScalarInputs)

Spec == Init /\ [][Next]_vars

----------------------------------------------------------------------------
(* Inputs with struct schemas: declarations of the structschema entries 1  *)
(* (struct P) and 2 (struct Q) and of the column p of type struct:P on     *)
(* entry 3, followed by schema texts, data of the column and control       *)
(* records.                                                                *)

\* "double x" (8 bytes), "Q q" and "P p" (3 bytes)
TextLeaf == Payload(<<100, 111, 117, 98, 108, 101, 32, 120>>, <<StdDecl("double", "x")>>)
TextRefQ == Payload(<<81, 32, 113>>, <<StdDecl("Q", "q")>>)
TextRefP == Payload(<<80, 32, 112>>, <<StdDecl("P", "p")>>)

SchemaP == StartRec(1, <<"/.schema/struct:", "P">>, <<"structschema">>, 46)
SchemaQ == StartRec(2, <<"/.schema/struct:", "Q">>, <<"structschema">>, 46)
ColumnP == StartRec(3, <<"p">>, <<"struct:", "P">>, 26)

StructDecls ==
    {<< >>, <<SchemaP>>, <<SchemaP, SchemaQ>>, <<ColumnP, SchemaP>>,
     <<SchemaP, SchemaQ, ColumnP>>, <<SchemaQ, ColumnP, SchemaP>>}

StructRecs ==
    {DataRec(1, 0, TextLeaf), DataRec(1, 0, TextRefQ),
     DataRec(2, 0, TextLeaf), DataRec(2, 0, TextRefP),
     DataRec(3, 1, X8), DataRec(3, 2, Z1),
     FinishRec(3), SetMetadataRec(3), TruncatedStartRec}

StructInputs ==
    {Nominal(decls \o recs) : decls \in StructDecls, recs \in SeqsUpTo(StructRecs, MaxStructRecs)}

InitStruct == InitWith(StructInputs)

SpecStruct == InitStruct /\ [][Next]_vars

----------------------------------------------------------------------------
(* Inputs cut short: a stream of four frames, with and without an extra    *)
(* header, and every number of bytes taken from its end.                   *)

FrameSample == <<StartA, DataRec(1, 1, X8), Wide(DataRec(1, 2, Y8)), FinishRec(1)>>

CutShort(in) == {[in EXCEPT !.len = @ - n, !.cut = n] : n \in 0..TotalBytes(in.recs)}

FrameInputs == CutShort(Nominal(FrameSample)) \cup CutShort(WithExtraHeader(FrameSample))

InitFrames == InitWith(FrameInputs)

SpecFrames == InitFrames /\ [][Next]_vars

----------------------------------------------------------------------------
(* Inputs of one column v on entry 1, of each scalar and list type, with   *)
(* payloads of several lengths: the first byte 1, the others 0.            *)

TypeNames ==
    {<<"double">>, <<"float">>, <<"int64">>, <<"boolean">>, <<"string">>,
     <<"boolean[]">>, <<"int64[]">>, <<"float[]">>, <<"double[]">>, <<"string[]">>}

PayloadOfLen(n) == Payload([i \in 1..n |-> IF i = 1 THEN 1 ELSE 0], <<BadDecl>>)

PayloadLens == {0, 1, 4, 8, 12}

TypedRecs == {DataRec(1, ts, PayloadOfLen(n)) : ts \in {1, 2}, n \in PayloadLens}

TypedInputs ==
    {Nominal(<<StartRec(1, <<"v">>, ty, 24)>> \o recs) :
        ty \in TypeNames, recs \in SeqsUpTo(TypedRecs, MaxTypedRecs)}

InitTypes == InitWith(TypedInputs)

SpecTypes == InitTypes /\ [][Next]_vars

----------------------------------------------------------------------------
(* Inputs with one struct column p of type struct:P.  The schema text of P *)
(* is a sequence of up to MaxFields declarations, named by position, over  *)
(* standard fields of several sizes, a fixed array, the nested struct Q    *)
(* and bit-fields of several underlying types and widths.                  *)

FieldNames == <<"f1", "f2", "f3", "f4", "f5">>

LayoutShapes ==
    {StdDecl("uint8", ""), ArrDecl("int16", "", 2), StdDecl("Q", ""),
     BitDecl("bool", "", 1), BitDecl("uint8", "", 3), BitDecl("uint8", "", 6),
     BitDecl("int8", "", 5), BitDecl("uint16", "", 9), BitDecl("uint64", "", 64)}

Named(shapes) == [i \in DOMAIN shapes |-> [shapes[i] EXCEPT !.name = FieldNames[i]]]

\* a schema text: its bytes are kept by their count only, one per declaration
Text(decls) == Payload([i \in DOMAIN decls |-> 59], decls)

\* payloads of n bytes
Buffers(n) ==
    {Payload([i \in 1..n |-> 255], <<BadDecl>>),
     Payload([i \in 1..n |-> IF i % 2 = 1 THEN 165 ELSE 60], <<BadDecl>>),
     Payload([i \in 1..n |-> (i * 37) % 256], <<BadDecl>>)}

LayoutInputs ==
    {Nominal(<<SchemaP, SchemaQ, ColumnP, DataRec(2, 0, TextLeaf),
               DataRec(1, 0, Text(Named(shapes))), DataRec(3, 1, buffer)>>) :
        shapes \in SeqsUpTo(LayoutShapes, MaxFields),
        buffer \in Buffers(8 * MaxFields) \cup {PayloadOfLen(1)}}

InitLayout == InitWith(LayoutInputs)

SpecLayout == InitLayout /\ [][Next]_vars

----------------------------------------------------------------------------
(* Inputs with a column ps of type struct:P[] next to a column a of type   *)
(* double.  P has a schema text of size 0, 1 or 2 bytes; the records of ps *)
(* carry payloads of 0 to 4 bytes.                                         *)

ColumnPs == StartRec(3, <<"ps">>, <<"struct:", "P", "[]">>, 29)
ColumnA == StartRec(4, <<"a">>, <<"double">>, 24)

ListTexts ==
    {Text(<< >>),
     Text(Named(<<StdDecl("uint8", "")>>)),
     Text(Named(<<BitDecl("uint8", "", 6), BitDecl("uint8", "", 3)>>)),
     Text(Named(<<ArrDecl("int16", "", 0)>>))}

ListRecs ==
    {DataRec(3, ts, Payload([i \in 1..n |-> (i * 37) % 256], <<BadDecl>>)) :
        ts \in {1, 2}, n \in {0, 1, 4}}
    \cup {DataRec(4, ts, X8) : ts \in {1, 2}}

ListInputs ==
    {Nominal(<<SchemaP, ColumnPs, ColumnA, DataRec(1, 0, text)>> \o recs) :
        text \in ListTexts, recs \in SeqsUpTo(ListRecs, MaxListRecs)}

InitLists == InitWith(ListInputs)

SpecLists == InitLists /\ [][Next]_vars

----------------------------------------------------------------------------
(* Inputs whose struct P is one bit-field declaration 'T f1 : n', for the  *)
(* type keywords and a struct name as T and widths around every limit.     *)

BitFieldTypes == PrimitiveTypes \cup {"Q"}

BitFieldWidths == {0, 1, 2, 7, 8, 9, 16, 17, 32, 33, 64, 65}

BitFieldInputs ==
    {Nominal(<<SchemaP, ColumnP, DataRec(1, 0, Text(Named(<<BitDecl(t, "", n)>>))),
               DataRec(3, 1, X8)>>) :
        t \in BitFieldTypes, n \in BitFieldWidths}

InitBitFields == InitWith(BitFieldInputs)

SpecBitFields == InitBitFields /\ [][Next]_vars

----------------------------------------------------------------------------
(* Inputs with three struct schemas P, Q and R next to the column p: each  *)
(* schema has no text, a text without references, a text that refers to    *)
(* P, to Q or to R, a text that refers to two structs, or a text that is   *)
(* no declaration.                                                         *)

SchemaR == StartRec(4, <<"/.schema/struct:", "R">>, <<"structschema">>, 46)

TextRefR == Payload(<<82, 32, 114>>, <<StdDecl("R", "r")>>)
TextRefQR == Payload(<<81, 32, 113, 59, 82, 32, 114>>, <<StdDecl("Q", "q"), StdDecl("R", "r")>>)
TextBad == Payload(<<120>>, <<BadDecl>>)

SchemaTexts == {TextLeaf, TextRefP, TextRefQ, TextRefR, TextRefQR, TextBad}

\* the data records that give entry e its schema text: none or one
TextRecs(e) == {<< >>} \cup {<<DataRec(e, 0, text)>> : text \in SchemaTexts}

DependencyInputs ==
    {Nominal(<<SchemaP, SchemaQ, SchemaR, ColumnP>> \o tp \o tq \o tr \o <<DataRec(3, 1, X8)>>) :
        tp \in TextRecs(1), tq \in TextRecs(2), tr \in TextRecs(4)}

InitDependencies == InitWith(DependencyInputs)

SpecDependencies == InitDependencies /\ [][Next]_vars

----------------------------------------------------------------------------
(* Inputs with control records of every kind among the data records of two *)
(* columns: Set-Metadata, a Start payload of 16 bytes, a Finish payload of *)
(* 6 bytes, an empty control payload, an unknown control type, and a       *)
(* Start and a Finish, all with timestamps of their own.  The first byte   *)
(* ctl of a payload means nothing when the payload is empty.               *)

At(r, ts) == [r EXCEPT !.timestamp = ts]

ShortStartRec == [StartRec(5, <<"s">>, <<"double">>, StartMinLen - 1) EXCEPT !.start = NoStart]
LongFinishRec(e) == [FinishRec(e) EXCEPT !.len = FinishLen + 1]
EmptyControlRec == [FinishRec(1) EXCEPT !.len = 0]
UnknownControlRec(e) == [FinishRec(e) EXCEPT !.ctl = CONTROL_SET_METADATA + 1]

InertControlRecs ==
    {At(SetMetadataRec(1), 2), At(ShortStartRec, 2), At(LongFinishRec(1), 2),
     At(EmptyControlRec, 2), At(UnknownControlRec(1), 2)}

ControlRecs ==
    InertControlRecs
    \cup {At(FinishRec(2), 2), At(StartB, 2)}
    \cup {DataRec(1, 1, X8), DataRec(1, 1, Y8), DataRec(2, 1, X8), DataRec(1, 3, X8)}

ControlInputs ==
    {Nominal(<<StartA, StartC>> \o recs) : recs \in SeqsUpTo(ControlRecs, MaxControlRecs)}

InitControl == InitWith(ControlInputs)

SpecControl == InitControl /\ [][Next]_vars

----------------------------------------------------------------------------
(* The record stream as the properties read it, computed from the input    *)
(* alone.                                                                  *)

\* the records of the input: all of recs unless bytes were cut from its end
Recs == IF input.cut = 0 THEN input.recs ELSE records(input)

Indices == [i \in 1..Len(Recs) |-> i]

\* ids for which a Finish record lies before position i
FinishedBefore(i) == {Recs[j].fin : j \in {j \in 1..(i - 1) : is_finish(Recs[j])}}

MalformedStartAt(j) == is_start(Recs[j]) /\ ~Recs[j].start.ok

StructSchemaStartAt(j) ==
    is_start(Recs[j]) /\ Recs[j].start.ok /\ is_structschema(Recs[j].start.type_name)

ColumnStartAt(j) ==
    is_start(Recs[j]) /\ Recs[j].start.ok /\ ~is_structschema(Recs[j].start.type_name)

\* a Start of id k behind a Finish of id k
ReuseStartAt(j) == ColumnStartAt(j) /\ Recs[j].start.entry \in FinishedBefore(j)

\* the column declarations that pass the Pass-1 filter
DeclaredAt(j) == ColumnStartAt(j) /\ ~ReuseStartAt(j)

Declared == SelectSeq(Indices, DeclaredAt)

DeclaredIds == {Recs[Declared[n]].start.entry : n \in 1..Len(Declared)}

DeclaredNames == [n \in 1..Len(Declared) |-> Recs[Declared[n]].start.name]

StructSchemaIds ==
    {Recs[j].start.entry : j \in {j \in 1..Len(Recs) : StructSchemaStartAt(j)}}

DataAt(i) == ~is_control(Recs[i])

\* the data records Pass 2 accumulates
AcceptedAt(i) ==
    DataAt(i) /\ Recs[i].entry \notin FinishedBefore(i) /\ Recs[i].entry \in DeclaredIds

\* timestamps of the accepted data records among the first n records
AcceptedTs(n) ==
    LET acc == SelectSeq(SubSeq(Indices, 1, n), AcceptedAt)
    IN  [m \in 1..Len(acc) |-> Recs[acc[m]].timestamp]

RECURSIVE FirstAppearances(_)
FirstAppearances(s) ==
    IF s = << >> THEN << >>
    ELSE LET front == FirstAppearances(SubSeq(s, 1, Len(s) - 1))
         IN  IF s[Len(s)] \in Range(front) THEN front ELSE Append(front, s[Len(s)])

\* one timestamp per maximal run of equal consecutive timestamps
RECURSIVE RunTimestamps(_)
RunTimestamps(s) ==
    IF s = << >> THEN << >>
    ELSE LET front == RunTimestamps(SubSeq(s, 1, Len(s) - 1))
         IN  IF Len(s) > 1 /\ s[Len(s) - 1] = s[Len(s)] THEN front
             ELSE Append(front, s[Len(s)])

NonDecreasing(s) == \A i, j \in DOMAIN s : i <= j => s[i] <= s[j]

\* number of the run, and so of the output row, the accepted record i falls in
RunIndex(i) == Len(RunTimestamps(AcceptedTs(i)))

\* the run of each of the first n records
RunIndexes(n) == [i \in 1..n |-> RunIndex(i)]

\* the value Pass 2 decodes from record i
DecodedAt(i) ==
    parse_record_value(Recs[i], get_column_by_entry(schema, Recs[i].entry).dtype, registry,
                       FALSE)

\* accepted records that write column k in row r, run[i] being the run of record i
Writers(run, k, r) ==
    {i \in DOMAIN run :
        AcceptedAt(i) /\ run[i] = r /\ column_index(schema, Recs[i].entry) = k}

Latest(S) == CHOOSE i \in S : \A j \in S : j <= i

LastWritten(run, k, r) ==
    LET W == Writers(run, k, r)
    IN  IF W = {} THEN None ELSE DecodedAt(Latest(W)).v

----------------------------------------------------------------------------
(* Row timeline *)

\* C1 as stated: the DataFrame has one row per distinct timestamp of the
\* accepted data records, and its timestamp column lists the distinct
\* timestamps in order of first appearance.
C1_RowPerDistinctTimestamp ==
    result.kind = "DataFrame" =>
        /\ Len(result.timestamp) = Cardinality(Range(AcceptedTs(Len(Recs))))
        /\ result.timestamp = FirstAppearances(AcceptedTs(Len(Recs)))

\* C1, amended: the DataFrame has one row per maximal run of consecutive
\* accepted data records with equal timestamp, the timestamp column listing
\* the runs' timestamps in stream order; when the accepted timestamps never
\* decrease this is one row per distinct timestamp, in order of first
\* appearance.
C1_RowPerTimestampRun ==
    result.kind = "DataFrame" =>
        /\ result.timestamp = RunTimestamps(AcceptedTs(Len(Recs)))
        /\ \A c \in 1..Len(result.columns) :
               Len(result.columns[c]) = Len(result.timestamp)
        /\ NonDecreasing(AcceptedTs(Len(Recs))) =>
               /\ Len(result.timestamp) = Cardinality(Range(AcceptedTs(Len(Recs))))
               /\ result.timestamp = FirstAppearances(AcceptedTs(Len(Recs)))

\* three accepted records coalesced into the rows of two distinct timestamps
C1_Witness ==
    /\ result.kind = "DataFrame"
    /\ AcceptedTs(Len(Recs)) = <<1, 1, 2>>
    /\ result.timestamp = <<1, 2>>

\* C2 as stated: a cell is null when no data record of its column's entry
\* id carries the row's timestamp ahead of a Finish of that id, and a cell
\* written by such a record is not null.
C2_SparseNullFilling ==
    result.kind = "DataFrame" =>
        \A c \in 1..Len(result.columns) : \A r \in 1..Len(result.timestamp) :
            LET id == Recs[Declared[c]].start.entry
                live(i) == DataAt(i) /\ Recs[i].entry = id
                           /\ Recs[i].entry \notin FinishedBefore(i)
            IN  /\ (~\E i \in 1..Len(Recs) :
                        live(i) /\ Recs[i].timestamp = result.timestamp[r])
                       => ~result.columns[c][r].some
                /\ (\E i \in 1..Len(Recs) : live(i) /\ RunIndex(i) = r)
                       => result.columns[c][r].some

\* C3: while a row is under construction and once it is emitted, each of
\* its columns holds the value of the last accepted record of the row's run
\* that wrote the column, and no value where no record wrote it.
C3_LastWriteWins ==
    (pc = "pass2" \/ (pc = "done" /\ result.kind = "DataFrame")) =>
        LET n == IF pc = "pass2" THEN pos - 1 ELSE Len(Recs)
            run == RunIndexes(n)
            runs == Len(RunTimestamps(AcceptedTs(n)))
        IN  /\ Len(builder.timestamp) = IF pc = "pass2" /\ runs > 0 THEN runs - 1 ELSE runs
            /\ \A k \in 1..num_columns(schema) :
                 /\ \A r \in 1..Len(builder.timestamp) :
                        builder.columns[k][r] = LastWritten(run, k, r)
                 /\ pc = "pass2" /\ runs > 0 => current_values[k] = LastWritten(run, k, runs)

\* a column written twice with different values in the row under
\* construction, next to a column written once
C3_Witness ==
    /\ pc = "pass2"
    /\ \E k, other \in 1..num_columns(schema) :
         LET run == RunIndexes(pos - 1)
             r == Len(RunTimestamps(AcceptedTs(pos - 1)))
             W == Writers(run, k, r)
         IN  /\ k # other
             /\ Cardinality(W) >= 2
             /\ \E i \in W : DecodedAt(i).v # DecodedAt(Latest(W)).v
             /\ Cardinality(Writers(run, other, r)) = 1
             /\ \E i \in Writers(run, other, r) : i < Latest(W)
             /\ current_values[k] = DecodedAt(Latest(W)).v

----------------------------------------------------------------------------
(* Entry reuse *)

\* C4 as stated: a Start of id k behind a Finish of id k adds a column.
C4_ReuseStartAddsColumn ==
    [][(pc \in {"pass1", "infer"} /\ pos <= Len(Recs) /\ ReuseStartAt(pos))
          => num_columns(schema') = num_columns(schema) + 1]_vars

\* C4, amended: a Start of id k behind a Finish of id k adds no column;
\* the schema is left as it was, and the DataFrame and the inferred schema
\* have a column for each of the other declarations only.
C4_ReuseStartAddsNoColumn ==
    /\ [][(pc \in {"pass1", "infer"} /\ pos <= Len(Recs) /\ ReuseStartAt(pos))
             => schema' = schema]_vars
    /\ [](result.kind \in {"DataFrame", "Schema"}
             => result.names = <<TimestampName>> \o DeclaredNames)

\* a DataFrame built from a stream with a Start behind a Finish of its id
C4_Witness ==
    /\ result.kind = "DataFrame"
    /\ \E j \in 1..Len(Recs) : ReuseStartAt(j)

\* C5: in Pass 2 a data record whose id has been finished assigns no value,
\* leaves the current timestamp alone and flushes no row, also behind a new
\* Start of the id.
C5_FinishedEntryIsInert ==
    [][(pc = "pass2" /\ pos <= Len(Recs) /\ DataAt(pos)
            /\ Recs[pos].entry \in FinishedBefore(pos))
          => UNCHANGED << current_values, current_timestamp, builder >>]_vars

\* a record of a finished id with a new timestamp, behind a new Start of the
\* id, has been passed over and the column's value is still in the row
C5_Witness ==
    /\ pc = "pass2" /\ pos > 2
    /\ DataAt(pos - 1)
    /\ Recs[pos - 1].entry \in FinishedBefore(pos - 1)
    /\ ReuseStartAt(pos - 2) /\ Recs[pos - 2].start.entry = Recs[pos - 1].entry
    /\ current_timestamp.some /\ current_timestamp.v # Recs[pos - 1].timestamp
    /\ current_values[column_index(schema, Recs[pos - 1].entry)].some

----------------------------------------------------------------------------
(* Shape of the result *)

\* C6: the DataFrame has 1 + num_columns columns: the Int64 column
\* "timestamp" first, then the columns declared in Pass 1 in the order of
\* their Start records.
C6_ColumnLayout ==
    result.kind = "DataFrame" =>
        /\ Len(result.names) = 1 + num_columns(schema)
        /\ Len(result.dtypes) = Len(result.names)
        /\ Len(result.columns) = num_columns(schema)
        /\ result.names[1] = TimestampName
        /\ result.dtypes[1] = Scalar("Int64")
        /\ result.names = <<TimestampName>> \o DeclaredNames
        /\ \A n \in 1..Len(Declared) :
               result.dtypes[n + 1] = from_wpilog_type(Recs[Declared[n]].start.type_name)

\* a DataFrame of two declared columns from a stream with a filtered Start
C6_Witness ==
    /\ result.kind = "DataFrame"
    /\ Len(Declared) = 2
    /\ result.names = <<TimestampName, <<"a">>, <<"c">> >>
    /\ \E j \in 1..Len(Recs) : ReuseStartAt(j)

----------------------------------------------------------------------------
(* Determinism *)

\* C7: the registry Pass 2 works with is the one every visiting order of
\* the captured definitions produces; the order is the only choice a call
\* makes, so equal inputs give equal outcomes.
C7_OrderIndependent ==
    pc = "pass2" =>
        \A order \in Perms(DOMAIN schema_defs) :
            register_all(schema_defs, order).registry = registry

\* P refers to Q and both are registered
C7_Witness ==
    /\ pc = "pass2"
    /\ DOMAIN schema_defs = {"P", "Q"}
    /\ schema_defs["P"] = <<StdDecl("Q", "q")>>
    /\ DOMAIN registry = {"P", "Q"}

----------------------------------------------------------------------------
(* Errors *)

\* C8: a call on a valid input whose stream declares no data column ends
\* with SchemaError, and no result has the timestamp column alone.
C8_NoColumnsIsSchemaError ==
    /\ (pc = "done" /\ is_valid(input) /\ Len(Declared) = 0
            /\ \A j \in 1..Len(Recs) : ~MalformedStartAt(j))
          => result = Error("SchemaError")
    /\ result.kind \in {"DataFrame", "Schema"} => Len(result.names) >= 2

\* a stream of a structschema declaration, a Finish and data records only
C8_Witness ==
    /\ pc = "done" /\ result = Error("SchemaError")
    /\ Len(Declared) = 0
    /\ \E j \in 1..Len(Recs) : StructSchemaStartAt(j)
    /\ \E j \in 1..Len(Recs) : is_finish(Recs[j])
    /\ \E j \in 1..Len(Recs) : DataAt(j)

\* C9 as stated: a call on an input with a foreign magic, an old version
\* or fewer bytes than the 12-byte header and the extra header it declares
\* ends with InvalidFormat before a record is read.
C9_BadHeaderIsInvalidFormat ==
    (pc = "done" /\ (\/ ~input.magic_ok
                     \/ input.version < MinVersion
                     \/ input.len < HeaderLen + input.extra))
       => result = Error("InvalidFormat") /\ pos = 1

\* C10 as stated: parse does not get past a data record whose id is
\* neither a column's nor a structschema entry's; it fails with
\* InvalidEntry.
C10_UnknownEntryIsFatal ==
    api = "parse" =>
        /\ pc = "pass2" => \A i \in 1..(pos - 1) :
               ~(DataAt(i) /\ Recs[i].entry \notin DeclaredIds \cup StructSchemaIds)
        /\ result.kind = "DataFrame" => \A i \in 1..Len(Recs) :
               ~(DataAt(i) /\ Recs[i].entry \notin DeclaredIds \cup StructSchemaIds)

\* C10, amended: Pass 2 passes over every data record whose id has no
\* column, a structschema entry's or not, without a change to the rows,
\* and no call ends with InvalidEntry.
C10_UnknownEntryIsSkipped ==
    /\ [][(pc = "pass2" /\ pos <= Len(Recs) /\ DataAt(pos)
               /\ Recs[pos].entry \notin DeclaredIds)
             => /\ pc' = "pass2" /\ pos' = pos + 1
                /\ UNCHANGED << current_values, current_timestamp, builder, result >>]_vars
    /\ [](result # Error("InvalidEntry"))

\* a DataFrame from a stream with a data record of an id never declared
C10_Witness ==
    /\ result.kind = "DataFrame"
    /\ \E i \in 1..Len(Recs) :
         /\ DataAt(i)
         /\ Recs[i].entry \notin DeclaredIds \cup StructSchemaIds
         /\ Recs[i].entry \notin FinishedBefore(i)

----------------------------------------------------------------------------
(* Frame decoder *)

\* number of leading frames of the input that lie within the buffer whole
WholeFrames ==
    Cardinality({i \in 1..Len(input.recs) :
        start_pos(input) + TotalBytes(SubSeq(input.recs, 1, i)) <= input.len})

\* C11: the iterator yields, in order, the frames that lie within the
\* buffer whole and come before the first one that does not; it looks at no
\* byte past the end of the buffer; the cut frame gives no error, no record
\* and no row.
C11_TruncationPolicy ==
    /\ records(input) = SubSeq(input.recs, 1, WholeFrames)
    /\ Recs = records(input)
    /\ bytes_read(input) <= input.len
    /\ pos <= WholeFrames + 1
    /\ (is_valid(input) /\ result.kind = "Err") =>
           (WholeFrames = 0 /\ result = Error("SchemaError"))
    /\ result.kind = "DataFrame" =>
           result.timestamp = RunTimestamps(AcceptedTs(WholeFrames))

\* the third frame has its header whole and its payload cut: a DataFrame of
\* the row of the second frame
C11_Witness ==
    /\ result.kind = "DataFrame"
    /\ WholeFrames = 2
    /\ input.len >= start_pos(input) + TotalBytes(SubSeq(input.recs, 1, 2)) + input.recs[3].hdr
    /\ input.len < start_pos(input) + TotalBytes(SubSeq(input.recs, 1, 3))
    /\ result.timestamp = <<1>>

----------------------------------------------------------------------------
(* Error kinds and decoding errors *)

\* C12 as stated: an error a call returns is one of InvalidFormat,
\* InvalidEntry, ParseError and SchemaError.
C12_FourErrorKinds ==
    result.kind = "Err" =>
        result.err \in {"InvalidFormat", "InvalidEntry", "ParseError", "SchemaError"}

\* the payload length n does not fit a value of the logical type
Incompatible(kind, n) ==
    CASE kind = "Boolean"                      -> n # 1
      [] kind \in {"Int64", "Float64"}         -> n # 8
      [] kind = "Float32"                      -> n # 4
      [] kind \in {"Int64Array", "Float64Array"} -> n % 8 # 0
      [] kind = "Float32Array"                 -> n % 4 # 0
      [] OTHER                                 -> FALSE

IncompatibleAt(i) ==
    Incompatible(get_column_by_entry(schema, Recs[i].entry).dtype.kind, Recs[i].len)

\* C13: an accepted data record whose payload length does not fit its
\* column's type ends Pass 2 with ParseError, whatever rows came before,
\* and no DataFrame comes from a stream with such a record.
C13_DecodingErrorIsFatal ==
    /\ [][(pc = "pass2" /\ pos <= Len(Recs) /\ AcceptedAt(pos) /\ IncompatibleAt(pos))
             => (pc' = "done" /\ result' = Error("ParseError"))]_vars
    /\ [](result.kind = "DataFrame" =>
             \A i \in 1..Len(Recs) : AcceptedAt(i) => ~IncompatibleAt(i))

\* a list column: a row emitted, a row under construction, then a payload
\* that is no multiple of the element size
C13_Witness ==
    /\ pc = "done" /\ result = Error("ParseError")
    /\ Len(builder.timestamp) = 2
    /\ schema.columns[1].dtype.kind = "Float64Array"
    /\ AcceptedAt(pos) /\ IncompatibleAt(pos) /\ Recs[pos].len = 12

\* the declaration i opens a unit of the layout: a standard field, or the
\* first bit-field of a maximal run of bit-fields of one underlying type
OpensUnit(fields, i) ==
    \/ fields[i].kind = "std"
    \/ i = 1
    \/ fields[i - 1].kind = "std"
    \/ fields[i - 1].type # fields[i].type

\* the bit-fields of the group opened at i: i..j with no unit opened in between
GroupOf(fields, i) ==
    {j \in i..Len(fields) : \A k \in (i + 1)..j : ~OpensUnit(fields, k)}

\* byte size of a standard field
ByteSize(d) ==
    LET one == CASE d.type \in {"bool", "char", "int8", "uint8"} -> 1
                 [] d.type \in {"int16", "uint16"} -> 2
                 [] d.type \in {"int32", "uint32", "float", "float32"} -> 4
                 [] d.type \in {"int64", "uint64", "double", "float64"} -> 8
                 [] OTHER -> registry[d.type].total_size
    IN  IF d.is_array THEN one * d.arr ELSE one

\* bytes of the unit opened at i: the field's size, or ceil(B / W) * U
UnitBytes(fields, i) ==
    IF fields[i].kind = "std" THEN ByteSize(fields[i])
    ELSE LET W == integer_type_width(fields[i].type)
             B == SumSeq([k \in 1..Len(fields) |->
                             IF k \in GroupOf(fields, i) THEN fields[k].bits ELSE 0])
         IN  ((B + W - 1) \div W) * integer_type_size(fields[i].type)

\* bytes of the units opened before declaration i
BytesBefore(fields, i) ==
    SumSeq([k \in 1..(i - 1) |-> IF OpensUnit(fields, k) THEN UnitBytes(fields, k) ELSE 0])

LaidOut == pc \in {"pass2", "done"} /\ api = "parse" /\ "P" \in DOMAIN registry

\* C14: the layout of a registered struct is contiguous and unpadded: the
\* first standard field or bit-field group is at offset 0, every standard
\* field and every bit-field group starts where the one before it ends, and
\* total_size is the sum of the standard fields' sizes plus, for every
\* group, ceil(B_g / W_g) * U_g
C14_ContiguousLayout ==
    LaidOut =>
        LET fields == registry["P"].fields
        IN  /\ \A i \in DOMAIN fields :
                   OpensUnit(fields, i) => fields[i].offset = BytesBefore(fields, i)
            /\ registry["P"].total_size = BytesBefore(fields, Len(fields) + 1)

\* a standard field, a group of two bit-fields that needs two units, and a
\* nested struct behind them
C14_Witness ==
    /\ LaidOut /\ pc = "done"
    /\ LET fields == registry["P"].fields
       IN  /\ Len(fields) = 3
           /\ fields[1].kind = "bits" /\ fields[1].type = "uint8" /\ fields[1].bits = 6
           /\ fields[2].kind = "bits" /\ fields[2].type = "uint8" /\ fields[2].bits = 3
           /\ fields[3].type = "Q" /\ fields[3].offset = 2
           /\ registry["P"].total_size = 10

\* the payload of the data record of column p, the last record of the input
StructPayload == Recs[Len(Recs)].data.bytes

\* the number that data stores little-endian in the bits of bit-field f: bit
\* k of it is bit (bit_offset + k) of the bytes from storage_offset on
StoredAt(data, f) ==
    [k \in 1..WordBits |->
        IF k <= f.bits
        THEN bit_of(data[f.offset + 1 + ((f.bit_offset + k - 1) \div 8)],
                    (f.bit_offset + k - 1) % 8)
        ELSE 0]

\* the record of column p has been decoded into the current row
StructDecoded ==
    /\ LaidOut /\ pos > Len(Recs)
    /\ current_values[1].some /\ current_values[1].tag = "Struct"

\* C15: for every registered layout and every bit-field f of it, of any
\* underlying type and any legal width up to the full width of the type,
\* within one storage unit or across two, deserializing a buffer that
\* stores v at f's (storage offset, bit offset) returns exactly v
C15_BitFieldRoundTrip ==
    LaidOut /\ Len(StructPayload) >= registry["P"].total_size =>
        /\ ~(pc = "done" /\ result.kind = "Err")
        /\ StructDecoded =>
               \A i \in DOMAIN registry["P"].fields :
                   LET f == registry["P"].fields[i]
                   IN  f.kind = "bits" =>
                           current_values[1].v[f.name].word = StoredAt(StructPayload, f)

\* column k was declared with a type that names a struct which has a schema
\* text and which dependency resolution left unregistered
NamesUnresolvedStruct(k) ==
    \E j \in DOMAIN Recs :
        /\ DeclaredAt(j)
        /\ Recs[j].start.entry = schema.columns[k].entry_id
        /\ Recs[j].start.name = schema.columns[k].name
        /\ starts_with_struct(Recs[j].start.type_name)
        /\ Recs[j].start.type_name[2] \in DOMAIN schema_defs \ DOMAIN registry

\* C16: when dependency resolution leaves a struct unregistered, parse does
\* not fail, and every column whose type names that struct is a string
\* column
C16_UnresolvedStructDegrades ==
    (api = "parse" /\ pc \in {"pass2", "done"}) =>
        \A k \in 1..num_columns(schema) :
            NamesUnresolvedStruct(k) =>
                /\ result.kind # "Err"
                /\ schema.columns[k].dtype.kind = "String"

\* L is a multiple of size
Multiple(L, size) == \E n \in 0..L : n * size = L

\* record i is an accepted data record of a column of type list of struct P
StructListAt(i) ==
    /\ i \in DOMAIN Recs /\ AcceptedAt(i)
    /\ get_column_by_entry(schema, Recs[i].entry).dtype = [kind |-> "StructArray", sname |-> "P"]

\* C17: a record of L bytes for a column of type list<struct<P>> fails with
\* a parse error when L is not a multiple of total_size(P); otherwise it
\* decodes to exactly L / total_size(P) structs, the i-th of them from the
\* bytes [i * size, (i + 1) * size) of the payload, in order
C17_StructListDecoding ==
    (api = "parse" /\ "P" \in DOMAIN registry) =>
        LET size == registry["P"].total_size
        IN  /\ (pc = "pass2" /\ StructListAt(pos - 1)) =>
                   LET data == Recs[pos - 1].data.bytes
                       k == column_index(schema, Recs[pos - 1].entry)
                   IN  /\ Multiple(Len(data), size)
                       /\ current_values[k].some
                       /\ Len(current_values[k].v) * size = Len(data)
                       /\ \A i \in 1..Len(current_values[k].v) :
                              current_values[k].v[i] =
                                  deserialize(registry, "P",
                                              SubSeq(data, (i - 1) * size + 1, i * size),
                                              FALSE).v.v
            /\ (pc = "done" /\ result.kind = "Err" /\ StructListAt(pos)) =>
                   /\ ~Multiple(Len(Recs[pos].data.bytes), size)
                   /\ result = Error("ParseError")

\* C18: in a finalized column of type list<struct<P>>, a row in which no
\* record wrote the column holds a null list, never an empty list, and so
\* differs from a row written by a record with an empty payload
C18_NullListIsNotEmptyList ==
    result.kind = "DataFrame" =>
        \A c \in 1..Len(result.columns) : \A r \in 1..Len(result.timestamp) :
            (/\ schema.columns[c].dtype.kind = "StructArray"
             /\ ~\E i \in DOMAIN Recs :
                     AcceptedAt(i) /\ RunIndex(i) = r
                     /\ column_index(schema, Recs[i].entry) = c)
                => ~result.columns[c][r].some

\* bits of the integer types other than bool
BitsOf(t) ==
    CASE t \in {"int8", "uint8"} -> 8
      [] t \in {"int16", "uint16"} -> 16
      [] t \in {"int32", "uint32"} -> 32
      [] t \in {"int64", "uint64"} -> 64

\* the registration of P, whose schema text is one bit-field declaration,
\* has been attempted
BitFieldTried ==
    /\ api = "parse" /\ pc \in {"pass2", "done"}
    /\ "P" \in DOMAIN schema_defs
    /\ Len(schema_defs["P"]) = 1 /\ schema_defs["P"][1].kind = "bits"

\* the declaration is accepted when legal, and rejected with a parse error
\* when not
AcceptedIff(legal) ==
    /\ "P" \in DOMAIN registry <=> legal
    /\ parse(schema_defs["P"]).ok <=> legal
    /\ ~legal => parse(schema_defs["P"]).err = "ParseError"

\* C19 as stated: a bit-field 'T name : n' is accepted iff T is bool or one
\* of int8..int64, uint8..uint64 and 1 <= n <= bits(T), every width 1..8
\* being legal for bool; any other is rejected with a parse error
C19_BoolWidthUpTo8 ==
    BitFieldTried =>
        LET d == schema_defs["P"][1]
        IN  AcceptedIff(\/ d.type = "bool" /\ d.bits \in 1..8
                        \/ d.type \in IntegerTypes \ {"bool"} /\ d.bits \in 1..BitsOf(d.type))

\* C19, amended: a bit-field 'T name : n' is accepted iff T is bool and
\* n = 1, or T is one of int8..int64, uint8..uint64 and 1 <= n <= bits(T);
\* any other is rejected with a parse error
C19_BoolWidthOne ==
    BitFieldTried =>
        LET d == schema_defs["P"][1]
        IN  AcceptedIff(\/ d.type = "bool" /\ d.bits = 1
                        \/ d.type \in IntegerTypes \ {"bool"} /\ d.bits \in 1..BitsOf(d.type))

\* 'bool f1 : 2' is rejected and P stays unregistered
C19_Witness ==
    /\ BitFieldTried /\ pc = "done"
    /\ schema_defs["P"][1].type = "bool" /\ schema_defs["P"][1].bits = 2
    /\ "P" \notin DOMAIN registry
    /\ result = Error("SchemaError")

\* the step appends one row to the builder: the row under construction
RowFlushed ==
    /\ Len(builder'.timestamp) = Len(builder.timestamp) + 1
    /\ builder' = push_row(builder, current_timestamp.v, current_values)

\* a step of Pass 2 flushes a row exactly when it should, and leaves the
\* rows alone otherwise
FlushesExactlyWhenDue ==
    /\ (pc = "pass2" /\ pos <= Len(Recs)) =>
           /\ RowFlushed <=> (/\ AcceptedAt(pos)
                              /\ current_timestamp.some
                              /\ Recs[pos].timestamp # current_timestamp.v)
           /\ RowFlushed \/ builder' = builder
    /\ (pc = "pass2" /\ pos > Len(Recs)) =>
           /\ RowFlushed <=> (\E i \in DOMAIN Recs : AcceptedAt(i))
           /\ RowFlushed \/ builder' = builder
    /\ pc # "pass2" => Len(builder'.timestamp) = Len(builder.timestamp)

\* the rows of the DataFrame are the maximal runs of accepted records
RowsAreRuns ==
    result.kind = "DataFrame" =>
        /\ Len(result.timestamp) = Len(RunTimestamps(AcceptedTs(Len(Recs))))
        /\ \A r \in 1..Len(result.timestamp) :
               \E i \in DOMAIN Recs :
                   /\ AcceptedAt(i) /\ RunIndex(i) = r
                   /\ Recs[i].timestamp = result.timestamp[r]
        /\ (~\E i \in DOMAIN Recs : AcceptedAt(i)) => Len(result.timestamp) = 0

\* C20: Pass 2 flushes a row exactly when the timestamp of an accepted data
\* record differs from the current timestamp, whichever way, and once more
\* at the end of the input iff a data record was accepted; the rows are the
\* maximal runs of accepted records with one timestamp, and an input with
\* columns and no accepted data record gives a DataFrame of zero rows
C20_RowCoalescing == [][FlushesExactlyWhenDue]_vars /\ [](RowsAreRuns)

\* a row flushed by a change to a smaller timestamp, and the last row
C20_Witness ==
    /\ result.kind = "DataFrame"
    /\ AcceptedTs(Len(Recs)) = <<2, 1>>
    /\ result.timestamp = <<2, 1>>

\* the step of Pass 1 or of infer_schema over the record at pos treats a
\* Start of a data column by the filter, and only adds to finished_entries
FiltersStart ==
    (pc \in {"pass1", "infer"} /\ pos <= Len(Recs)) =>
        /\ (ColumnStartAt(pos) /\ Recs[pos].start.entry \in finished_entries) =>
               schema' = schema
        /\ (ColumnStartAt(pos) /\ Recs[pos].start.entry \notin finished_entries) =>
               /\ num_columns(schema') = num_columns(schema) + 1
               /\ SubSeq(schema'.columns, 1, num_columns(schema)) = schema.columns
               /\ schema'.columns[num_columns(schema')].entry_id = Recs[pos].start.entry
               /\ schema'.columns[num_columns(schema')].name = Recs[pos].start.name
        /\ pc' = pc => finished_entries \subseteq finished_entries'

\* finished_entries holds the ids whose Finish lies earlier in the stream
FinishedSoFar ==
    pc \in {"pass1", "infer"} => finished_entries = FinishedBefore(pos)

\* C21: in Pass 1 of parse and in infer_schema a Start of a type other than
\* structschema adds no column when a Finish of its id came earlier in the
\* stream and exactly one column otherwise, and finished_entries only grows
\* during a pass
C21_PassOneFilter == [][FiltersStart]_vars /\ [](FinishedSoFar)

\* infer_schema has passed a Start behind a Finish of its id and a Start
\* that added its column
C21_Witness ==
    /\ api = "infer" /\ pc = "infer" /\ pos > 1
    /\ ReuseStartAt(pos - 1)
    /\ Recs[pos - 1].start.entry \in finished_entries
    /\ num_columns(schema) = 2

\* the structs a schema text refers to
Refs(text) ==
    {text[i].type : i \in {i \in DOMAIN text :
                              text[i].kind = "std" /\ text[i].type \notin PrimitiveTypes}}

\* the definitions that parse and refer to members of S only
ResolvedBy(S) ==
    {n \in DOMAIN schema_defs : parse(schema_defs[n]).ok /\ Refs(schema_defs[n]) \subseteq S}

\* the least set of definitions closed under ResolvedBy
RECURSIVE Resolvable(_)
Resolvable(S) == IF ResolvedBy(S) = S THEN S ELSE Resolvable(ResolvedBy(S))

\* C22: dependency resolution ends after at most (number of captured
\* definitions + 1) passes whatever the order of visit; on exit a
\* definition is registered iff its text parses and every struct it refers
\* to is registered, so forward references are resolved and definitions
\* that refer to themselves, to one another in a cycle or to a missing
\* struct stay unregistered, each reported by a warning
C22_TerminatingFixpoint ==
    (api = "parse" /\ pc \in {"pass2", "done"} /\ num_columns(schema) > 0) =>
        /\ \A order \in Perms(DOMAIN schema_defs) :
               LET out == register_all(schema_defs, order)
               IN  /\ out.passes <= Cardinality(DOMAIN schema_defs) + 1
                   /\ DOMAIN out.registry = out.registered
                   /\ out.registry = registry
                   /\ warned(out, schema_defs) = DOMAIN schema_defs \ DOMAIN registry
        /\ \A n \in DOMAIN schema_defs :
               n \in DOMAIN registry <=>
                   /\ parse(schema_defs[n]).ok
                   /\ Refs(schema_defs[n]) \subseteq DOMAIN registry
        /\ DOMAIN registry = Resolvable({})

\* P refers to Q and R, Q to R: all three are registered, in three passes
\* when they are visited in the order P, Q, R
C22_Witness ==
    /\ api = "parse" /\ pc = "done"
    /\ DOMAIN schema_defs = {"P", "Q", "R"}
    /\ Refs(schema_defs["P"]) = {"Q", "R"} /\ Refs(schema_defs["Q"]) = {"R"}
    /\ DOMAIN registry = {"P", "Q", "R"}
    /\ register_all(schema_defs, <<"P", "Q", "R">>).passes = 3

\* the declaration that opens the run of bit-field i
RunStart(fields, i) == CHOOSE g \in 1..i : OpensUnit(fields, g) /\ i \in GroupOf(fields, g)

\* bits of the bit-fields of the run in front of bit-field i
StartBit(fields, i) ==
    SumSeq([k \in 1..(i - 1) |-> IF k >= RunStart(fields, i) THEN fields[k].bits ELSE 0])

\* C23: bit-fields are grouped into maximal runs of consecutive bit-fields
\* of one underlying type, a run starting at the next free byte; in a run of
\* type T (W bits, U bytes) at byte offset o a field behind start_bit bits
\* of the run has storage offset o + floor(start_bit / W) * U and bit offset
\* start_bit mod W, and spans_units holds exactly when its bits
\* [start_bit, start_bit + width) cross a unit boundary
C23_BitFieldPlacement ==
    LaidOut =>
        LET fields == registry["P"].fields
        IN  \A i \in DOMAIN fields :
                fields[i].kind = "bits" =>
                    LET W == integer_type_width(fields[i].type)
                        U == integer_type_size(fields[i].type)
                        o == BytesBefore(fields, RunStart(fields, i))
                        start_bit == StartBit(fields, i)
                    IN  /\ fields[i].offset = o + (start_bit \div W) * U
                        /\ fields[i].bit_offset = start_bit % W
                        /\ fields[i].spans_units <=>
                               (start_bit \div W) # ((start_bit + fields[i].bits - 1) \div W)

\* a field across two units of uint8, and a run of uint16 behind the run
\* of uint8
C23_Witness ==
    /\ LaidOut /\ pc = "done"
    /\ LET fields == registry["P"].fields
       IN  /\ Len(fields) = 3
           /\ fields[1].type = "uint8" /\ fields[1].bits = 6 /\ ~fields[1].spans_units
           /\ fields[2].type = "uint8" /\ fields[2].bits = 3 /\ fields[2].spans_units
           /\ fields[2].offset = 0 /\ fields[2].bit_offset = 6
           /\ fields[3].type = "uint16" /\ fields[3].offset = 2 /\ fields[3].bit_offset = 0

\* C24: a bit-field value is zero-extended, never sign-extended: for every
\* bit-field of any underlying type, signed or not, across two units or
\* not, and every content of the buffer, a value v is returned as an i64
\* with 0 <= v < 2 ^ bit_width whose bits are those of the field's span
\* only: no bit of a neighbouring field or of the sign of the storage unit
\* shows in v
C24_ZeroExtended ==
    LaidOut /\ Len(StructPayload) >= registry["P"].total_size =>
        /\ ~(pc = "done" /\ result = Error("panic"))
        /\ StructDecoded =>
               \A i \in DOMAIN registry["P"].fields :
                   LET f == registry["P"].fields[i]
                       v == current_values[1].v[f.name]
                   IN  f.kind = "bits" =>
                           /\ v.kind = "Int64"
                           /\ v.word[WordBits] = 0
                           /\ \A k \in 1..WordBits :
                                  v.word[k] = IF k <= f.bits
                                              THEN StoredAt(StructPayload, f)[k]
                                              ELSE 0

\* a control record that is a Start (payload of 17 bytes or more, first
\* byte 0) or a Finish (payload of 5 bytes, first byte 1)
StartOrFinish(r) ==
    /\ r.entry = 0
    /\ \/ r.len >= StartMinLen /\ r.ctl = CONTROL_START
       \/ r.len = FinishLen /\ r.ctl = CONTROL_FINISH

\* a step over a control record leaves the rows alone in Pass 2, and in any
\* pass leaves everything but the position alone when the record is
\* neither a Start nor a Finish
ControlIsInert ==
    (pc \in {"pass1", "pass2", "infer"} /\ pos <= Len(Recs) /\ Recs[pos].entry = 0) =>
        /\ pc = "pass2" => /\ UNCHANGED << current_values, current_timestamp, builder >>
                           /\ pc' = pc
        /\ ~StartOrFinish(Recs[pos]) =>
               /\ UNCHANGED << schema, schema_entries, schema_defs, finished_entries,
                               current_values, current_timestamp, builder, result >>
               /\ pc' = pc

\* C25: in Pass 2 no control record, of any kind and timestamp, assigns a
\* value, changes the current timestamp or flushes a row; a control record
\* that is neither a Start (payload of 17 bytes or more, first byte 0) nor
\* a Finish (payload of 5 bytes, first byte 1), Set-Metadata and malformed
\* payloads included, changes neither the schema nor finished_entries nor
\* the rows
C25_ControlRecordsAreInert == [][ControlIsInert]_vars

\* Pass 2 has passed a Finish payload of 6 bytes with a timestamp other
\* than that of the row under construction: the id is not finished
C25_Witness ==
    /\ pc = "pass2" /\ pos > 1
    /\ Recs[pos - 1] = At(LongFinishRec(1), 2)
    /\ current_timestamp = SomeTs(1)
    /\ current_values[1].some
    /\ 1 \notin finished_entries
    /\ builder.timestamp = << >>

\* the struct names of the inputs
StructNames == {"P", "Q", "R"}

\* the registries the first pass of the registration loop goes through when
\* it visits the definitions in the given order
RegistriesOnTheWay(order) ==
    {register_pass([registry |-> EmptyMap, registered |-> {}, passes |-> 1],
                   schema_defs, SubSeq(order, 1, k), 1).registry : k \in 0..Len(order)}

\* C26: a call of register that fails, on a text that does not parse or
\* that refers to a struct not registered yet, leaves the registry as it
\* was: nothing is inserted or replaced under the name and every schema
\* registered before keeps its layout; the same call succeeds once the
\* structs the text refers to are registered
C26_FailedRegisterChangesNothing ==
    (api = "parse" /\ pc \in {"pass2", "done"}) =>
        \A order \in Perms(DOMAIN schema_defs) :
            \A before \in RegistriesOnTheWay(order) \cup {registry} :
                \A name \in StructNames, text \in {t.text : t \in SchemaTexts} :
                    ~register_ok(before, text) =>
                        /\ register(before, name, text) = before
                        /\ (parse(text).ok /\ Refs(text) \subseteq DOMAIN registry) =>
                               LET later == register(registry, name, text)
                               IN  /\ name \in DOMAIN later
                                   /\ later[name].fields = calculate_layout(registry, text).fields
                                   /\ \A other \in DOMAIN registry \ {name} :
                                          later[other] = registry[other]

\* P refers to Q: registering P into the empty registry fails, and P is
\* registered once Q is
C26_Witness ==
    /\ api = "parse" /\ pc = "pass2"
    /\ DOMAIN schema_defs = {"P", "Q"}
    /\ Refs(schema_defs["P"]) = {"Q"}
    /\ ~register_ok(EmptyMap, schema_defs["P"])
    /\ register(EmptyMap, "P", schema_defs["P"]) = EmptyMap
    /\ DOMAIN registry = {"P", "Q"}

\* every column builder holds as many entries as the timestamps vector
Aligned(b) == \A j \in DOMAIN b.columns : Len(b.columns[j]) = Len(b.timestamp)

\* value slices shorter than, as long as and longer than the number of
\* columns, with and without absent values
Slices == SeqsUpTo({None, Some("Float64", X8)}, num_columns(schema) + 1)

\* the builder changes by one push_row of the row under construction
EachChangeIsOnePushRow ==
    pc = "pass2" =>
        \/ builder' = builder
        \/ builder' = push_row(builder, current_timestamp.v, current_values)

PushRowAligns ==
    /\ Aligned(builder)
    /\ pc = "pass2" =>
           \A values \in Slices :
               LET after == push_row(builder, 1, values)
                   row == Len(builder.timestamp) + 1
               IN  /\ Aligned(after)
                   /\ Len(after.timestamp) = row
                   /\ DOMAIN after.columns = 1..num_columns(schema)
                   /\ \A j \in 1..num_columns(schema) :
                          /\ SubSeq(after.columns[j], 1, row - 1) = builder.columns[j]
                          /\ after.columns[j][row] =
                                 IF j \in DOMAIN values THEN values[j] ELSE None
    /\ result.kind = "DataFrame" =>
           /\ Len(result.timestamp) = Len(builder.timestamp)
           /\ Len(result.columns) = num_columns(schema)
           /\ Len(result.names) = num_columns(schema) + 1
           /\ \A j \in DOMAIN result.columns :
                  Len(result.columns[j]) = Len(builder.timestamp)

\* C27: after any sequence of push_row calls, with value slices shorter
\* than, as long as or longer than the number of columns, every column
\* builder holds as many entries as the timestamps vector, entry i of
\* builder j being values[j] of the i-th call or null when absent; the
\* DataFrame built has one row per call and num_columns + 1 columns
C27_RowAlignment == [][EachChangeIsOnePushRow]_vars /\ [](PushRowAligns)

\* two rows pushed into two columns, the first with an absent value
C27_Witness ==
    /\ result.kind = "DataFrame"
    /\ Len(builder.timestamp) = 2 /\ num_columns(schema) = 2
    /\ ~builder.columns[2][1].some /\ builder.columns[1][1].some
    /\ Len(result.columns[2]) = 2

\* C28: deserialize returns a data-too-short error and no value when the
\* data are shorter than the total size of the struct, and a schema-missing
\* error when the name is not registered; data of the total size or more
\* are deserialized without a read behind the total size, whatever the
\* fields: scalars, array elements, nested structs, the one or two storage
\* units of a bit-field
C28_ReadsWithinTotalSize ==
    LaidOut =>
        /\ pc = "done" =>
           \A n \in {0, registry["P"].total_size - 1, registry["P"].total_size,
                      registry["P"].total_size + 1} \cap 0..Len(StructPayload) :
               LET data == SubSeq(StructPayload, 1, n)
                   out == deserialize(registry, "P", data, FALSE)
                   checked == deserialize(registry, "P", data, TRUE)
               IN  IF n < registry["P"].total_size
                   THEN out = Err("ParseError") /\ checked = Err("ParseError")
                   ELSE /\ out.ok /\ out.v.tag = "Struct"
                        /\ out = deserialize(registry, "P", StructPayload, FALSE)
                        /\ checked = deserialize(registry, "P", StructPayload, TRUE)
        /\ \A name \in StructNames \ DOMAIN registry :
               \A checks \in BOOLEAN :
                   deserialize(registry, name, StructPayload, checks) = Err("SchemaError")
        /\ (pc = "done" /\ Len(StructPayload) < registry["P"].total_size) =>
               result = Error("ParseError")
        /\ (pos > Len(Recs) /\ Len(StructPayload) < registry["P"].total_size) =>
               ~current_values[1].some

\* a bit-field across two storage units at the end of a struct of three
\* bytes, deserialized from exactly three bytes, and refused from two
C28_Witness ==
    /\ LaidOut /\ StructDecoded
    /\ registry["P"].total_size = 3
    /\ Len(registry["P"].fields) = 3
    /\ registry["P"].fields[3].kind = "bits" /\ registry["P"].fields[3].spans_units
    /\ deserialize(registry, "P", SubSeq(StructPayload, 1, 3), FALSE).ok
    /\ deserialize(registry, "P", SubSeq(StructPayload, 1, 2), FALSE) = Err("ParseError")

\* the error kind Pass 1 ends with, "" when it ends without one
PassOneError ==
    IF ~is_valid(input) THEN "InvalidFormat"
    ELSE IF \E j \in DOMAIN Recs : MalformedStartAt(j)
    THEN get_start_data(Recs[CHOOSE j \in DOMAIN Recs :
                                 /\ MalformedStartAt(j)
                                 /\ \A i \in 1..(j - 1) : ~MalformedStartAt(i)]).err
    ELSE IF Declared = << >> THEN "SchemaError"
    ELSE ""

\* what infer_schema returns, by the declarations of the input
InferOutcome ==
    IF PassOneError # "" THEN Error(PassOneError)
    ELSE [kind |-> "Schema",
          names |-> <<TimestampName>> \o DeclaredNames,
          dtypes |-> <<Scalar("Int64")>> \o
                     [n \in 1..Len(Declared) |->
                         to_polars_dtype(from_wpilog_type(Recs[Declared[n]].start.type_name))]]

\* C29: on an input on which parse succeeds, infer_schema succeeds and
\* reports "timestamp" (Int64) and then the names and data types of the
\* columns of the DataFrame parse returns, in the same order; when parse
\* fails in Pass 1, infer_schema fails with the same kind of error
C29_InferAgreesWithParse ==
    pc = "done" =>
        /\ api = "infer" => result = InferOutcome
        /\ (api = "parse" /\ result.kind = "DataFrame") =>
               /\ InferOutcome.kind = "Schema"
               /\ InferOutcome.names = result.names
               /\ InferOutcome.dtypes = result.dtypes
        /\ (api = "parse" /\ PassOneError # "") => result = InferOutcome
        /\ (api = "parse" /\ PassOneError = "") => Len(builder.columns) = Len(Declared)

\* every value held for column k, in the row under construction or in a
\* row pushed, is of the logical type of column k
ValuesOfColumnType ==
    /\ \A k \in DOMAIN current_values :
           current_values[k].some => current_values[k].tag = schema.columns[k].dtype.kind
    /\ \A k \in DOMAIN builder.columns :
           \A r \in DOMAIN builder.columns[k] :
               builder.columns[k][r].some =>
                   builder.columns[k][r].tag = schema.columns[k].dtype.kind

\* C30: in Pass 2 each entry id refers to at most one column of the schema,
\* and a value assigned to current_values[k] was decoded with the logical
\* type of column k, so that no column receives a value of the type of
\* another column, for every record stream, also when an entry id is
\* declared by more than one Start with no Finish in between
C30_ColumnTypeConsistency ==
    (api = "parse" /\ pc \in {"pass2", "done"} /\ num_columns(schema) > 0) =>
        /\ \A k, m \in DOMAIN schema.columns :
               schema.columns[k].entry_id = schema.columns[m].entry_id => k = m
        /\ ValuesOfColumnType

====
